---- MODULE Spec2Model ----
(***************************************************************************)
(* Ladder engine of htk-tennis-v2 (lib/ladder): challenge eligibility,     *)
(* rank update after a reported result, and win/loss bookkeeping.          *)
(*                                                                         *)
(* The functions are pure; the state machine applies them to a ladder,     *)
(* each call on the ladder the previous call returned, and records the     *)
(* call (operation, arguments, the ladder passed in) next to its result.   *)
(* Indices are 0-based as in the source; sequences are 1-based, so the     *)
(* player at index i is l[i + 1].                                          *)
(***************************************************************************)
EXTENDS Integers, Sequences, FiniteSets, TLC

\* Bounds of the model.
MaxPlayers == 6
MaxCalls == 1
MaxUsers == 3
MaxSeqUsers == 2
MaxSeqCalls == 2
MaxTallyPlayers == 3
MaxTallyCalls == 3
MaxBookings == 3
MaxMatchBookings == 3
MaxCached == 2
MaxHour == 4

\* const maxChallengeDistance = 4;
maxChallengeDistance == 4

\* Player ids are 1..MaxPlayers; UnknownId and OtherUnknownId are ids no
\* ladder contains (the tests' "unknown"); NoId marks an argument slot the
\* call does not have.
UnknownId == 0
OtherUnknownId == UnknownId - 1
NoId == UnknownId - 2
PlayerIds == 1..MaxPlayers

VARIABLES ladder, input, argument, op, winnerId, loserId, challengerId,
          opponentId, status, calls,
          users, currentUser, participantIds,
          booking, match,
          counted, page, cache, availability, ladderMatches

\* What buildLadderPlayers was given, and what bookingToLadderMatch was given
\* and returned.
buildVars == <<users, currentUser, participantIds>>
projectionVars == <<booking, match>>

\* The results that counted in a sequence of calls, the state of the ladder
\* page, the query cache of the bookings, and what
\* checkAvailabilityFromBookings and buildLadderMatches were given and
\* returned.
appVars == <<counted, page, cache, availability, ladderMatches>>

vars == <<ladder, input, argument, op, winnerId, loserId, challengerId,
          opponentId, status, calls, users, currentUser, participantIds,
          booking, match, counted, page, cache, availability, ladderMatches>>

----------------------------------------------------------------------------
\* Values

\* interface LadderPlayer { id; name; wins; losses }
LadderPlayer(id, name, wins, losses) ==
    [id |-> id, name |-> name, wins |-> wins, losses |-> losses]

\* The name a player carries; one name per id.
NameOf(id) == <<"Player", id>>

\* What destructuring an empty array yields (const [x] = []).
undefinedPlayer == LadderPlayer(NoId, <<"undefined", NoId>>, 0, 0)

\* interface ChallengeStatus { eligible; reason? }
ChallengeStatus(eligible, reason) == [eligible |-> eligible, reason |-> reason]
NoReason == "undefined"
NoStatus == ChallengeStatus(FALSE, "none")

\* The counters a user record has stored: those of the five players of the
\* applyLadderResult test ladder; any further player has no results yet.
StoredStats(i) ==
    IF i \in 1..5
    THEN << <<2, 1>>, <<1, 3>>, <<4, 0>>, <<0, 2>>, <<3, 2>> >>[i]
    ELSE <<0, 0>>

\* A ladder as a caller first has it: n players in rank order, either all
\* without results (the mock roster, a new season) or with stored counters.
InitialLadder(n, seasoned) ==
    [i \in 1..n |->
        IF seasoned
        THEN LadderPlayer(i, NameOf(i), StoredStats(i)[1], StoredStats(i)[2])
        ELSE LadderPlayer(i, NameOf(i), 0, 0)]

----------------------------------------------------------------------------
\* Values of the registry (buildLadderPlayers)

\* An optional string that is not there.
undefined == "undefined"

\* A stored counter with its typeof: a number, nothing, or a string of digits.
JsNumber(n) == [type |-> "number", value |-> n]
JsUndefined == [type |-> "undefined", value |-> 0]
JsString(n) == [type |-> "string", value |-> n]

\* const fallbackPlayerName = "Spelare";
fallbackPlayerName == "Spelare"

\* An email address by its part before the "@"; NoEmail is an empty one.
Email(local) == [local |-> local, domain |-> "example.com"]
NoEmail == [local |-> "", domain |-> ""]

\* Ids: users are 1..MaxUsers, the session-only user comes after them, the
\* placeholder roster has ids of its own ("mock-1" .. "mock-8").
OutsiderId == MaxUsers + 1
MockId(i) == 100 + i

\* interface User { uid; email; displayName?; ladderWins?; ladderLosses? }
User(uid, email, displayName, ladderWins, ladderLosses) ==
    [uid |-> uid, email |-> email, displayName |-> displayName,
     ladderWins |-> ladderWins, ladderLosses |-> ladderLosses]

\* The user records of the registry tests; a user beyond them has neither
\* name, email nor counters.
StoredUser(uid) ==
    IF uid = 1 THEN User(1, Email("alice"), "Alice", JsNumber(5), JsNumber(2))
    ELSE IF uid = 2 THEN User(2, Email("bob"), "Bob", JsNumber(3), JsNumber(4))
    ELSE IF uid = 3
         THEN User(3, Email("charlie"), "Charlie", JsNumber(1), JsNumber(1))
         ELSE User(uid, NoEmail, undefined, JsUndefined, JsUndefined)

\* The same user as a record without display name, without ladderWins and
\* with a ladderLosses that is not a number.
BareUser(uid) ==
    [StoredUser(uid) EXCEPT !.displayName = undefined,
                            !.ladderWins = JsUndefined,
                            !.ladderLosses = JsString(2)]

\* users: User[] | undefined
UserList(list) == [defined |-> TRUE, list |-> list]
NoUsers == [defined |-> FALSE, list |-> <<>>]

\* participantIds?: string[]; the array is read only through
\* length, new Set(...) and includes, so it is kept as the set of its elements.
Participants(ids) == [defined |-> TRUE, ids |-> ids]
NoParticipants == [defined |-> FALSE, ids |-> {}]

\* currentUser: AuthUser | null
AuthUser(uid, email, displayName) ==
    [isNull |-> FALSE, uid |-> uid, email |-> email,
     displayName |-> displayName]
NoSession == [isNull |-> TRUE, uid |-> NoId, email |-> NoEmail,
              displayName |-> undefined]

\* export const mockLadderPlayers
mockLadderPlayers ==
    << LadderPlayer(MockId(1), "Elin Andersson", 0, 0),
       LadderPlayer(MockId(2), "Johan Larsson", 0, 0),
       LadderPlayer(MockId(3), "Sara Nilsson", 0, 0),
       LadderPlayer(MockId(4), "Oskar Svensson", 0, 0),
       LadderPlayer(MockId(5), "Lina Berg", 0, 0),
       LadderPlayer(MockId(6), "Erik Persson", 0, 0),
       LadderPlayer(MockId(7), "Maja Lind", 0, 0),
       LadderPlayer(MockId(8), "Victor Holm", 0, 0) >>

\* The names of the model in the order String.prototype.localeCompare(_, "sv")
\* gives them (lower case before upper case).
svCollation ==
    << "alice", "Alice", "bob", "Bob", "charlie", "Charlie", "dana",
       "Elin Andersson", "Erik Persson", "Johan Larsson", "Lina Berg",
       "Maja Lind", "Oskar Svensson", "Sara Nilsson", "Spelare",
       "Victor Holm" >>

svRank(name) == CHOOSE i \in 1..Len(svCollation) : svCollation[i] = name

\* a.localeCompare(b, "sv")
localeCompare(a, b) ==
    IF svRank(a) < svRank(b) THEN -1
    ELSE IF svRank(a) > svRank(b) THEN 1 ELSE 0

----------------------------------------------------------------------------
\* Values of the match projection (bookingToLadderMatch)

\* A player id field of a booking is an optional string: NoId when the field
\* is not there, EmptyId when it holds the empty string.
EmptyId == UnknownId - 3

\* interface Booking (the fields the projection reads); dates are instants.
Booking(id, startDate, endDate, playerAId, playerBId, ladderStatus, winner, comment) ==
    [id |-> id, startDate |-> startDate, endDate |-> endDate,
     playerAId |-> playerAId, playerBId |-> playerBId,
     ladderStatus |-> ladderStatus, winnerId |-> winner,
     comment |-> comment]

NoBooking == Booking("", 0, 0, NoId, NoId, undefined, NoId, undefined)

\* interface LadderMatch, and null
LadderMatch(id, playerAId, playerBId, bookingId, bookingStart, bookingEnd, matchStatus, winner, comment) ==
    [isNull |-> FALSE, id |-> id, playerAId |-> playerAId,
     playerBId |-> playerBId, bookingId |-> bookingId,
     bookingStart |-> bookingStart, bookingEnd |-> bookingEnd,
     status |-> matchStatus, winnerId |-> winner, comment |-> comment]

nullMatch ==
    [LadderMatch("", NoId, NoId, "", 0, 0, undefined, NoId, undefined)
        EXCEPT !.isNull = TRUE]

\* The records the projection is tried on: every combination of a player id
\* field that is missing, empty or set, with and without result fields.
BookingRecords ==
    {Booking(id, t, t + 1, a, b, s, w, c) :
        id \in {"b1", "b2"}, t \in {1, 2}, a \in {NoId, EmptyId, 1}, b \in {NoId, EmptyId, 2},
        s \in {undefined, "planned", "completed"}, w \in {NoId, 1, 2},
        c \in {undefined, "", "bra match"}}

----------------------------------------------------------------------------
\* Array primitives the source uses

\* Array.prototype.findIndex with the predicate player.id === id
findIndex(l, id) ==
    IF \E i \in 1..Len(l) : l[i].id = id
    THEN (CHOOSE i \in 1..Len(l) :
              /\ l[i].id = id
              /\ \A j \in 1..(i - 1) : l[j].id # id) - 1
    ELSE -1

\* Array.prototype.splice: where a start argument lands in an array of len
spliceStart(len, start) ==
    IF start < 0
    THEN (IF len + start < 0 THEN 0 ELSE len + start)
    ELSE (IF start > len THEN len ELSE start)

\* updated.splice(start, 1): the array left behind
spliceRemove(l, start) ==
    LET s == spliceStart(Len(l), start)
    IN SubSeq(l, 1, s) \o SubSeq(l, s + 2, Len(l))

\* const [x] = updated.splice(start, 1): the element taken out
spliceRemoved(l, start) ==
    LET s == spliceStart(Len(l), start)
    IN IF s < Len(l) THEN l[s + 1] ELSE undefinedPlayer

\* updated.splice(start, 0, item)
spliceInsert(l, start, item) ==
    LET s == spliceStart(Len(l), start)
    IN SubSeq(l, 1, s) \o <<item>> \o SubSeq(l, s + 1, Len(l))

\* [...players].sort((a, b) => a.name.localeCompare(b.name, "sv")): the
\* sort is stable, players of equal name keep their order.
RECURSIVE sortByName(_)
sortByName(players) ==
    IF Len(players) <= 1
    THEN players
    ELSE LET front == sortByName(SubSeq(players, 1, Len(players) - 1))
             last == players[Len(players)]
             k == Cardinality({i \in 1..Len(front) :
                      localeCompare(front[i].name, last.name) <= 0})
         IN SubSeq(front, 1, k) \o <<last>> \o SubSeq(front, k + 1, Len(front))

----------------------------------------------------------------------------
\* lib/ladder

\* The email is trimmed and cut at the "@"; the model's emails carry no
\* blanks, so what is left is the local part.
getPlayerName(user) ==
    LET emailName == user.email.local
    IN IF user.displayName # undefined /\ user.displayName # ""
       THEN user.displayName
       ELSE IF emailName # "" THEN emailName ELSE fallbackPlayerName

\* Variant: the typeof checks are left out, the stored value is taken as is.
getPlayerStats_unchecked(user) ==
    [wins |-> user.ladderWins.value, losses |-> user.ladderLosses.value]

getPlayerStats(user) ==
    [wins |-> IF user.ladderWins.type = "number"
              THEN user.ladderWins.value ELSE 0,
     losses |-> IF user.ladderLosses.type = "number"
                THEN user.ladderLosses.value ELSE 0]

\* null, as resolveLadderMatchIndices returns it
nullIndices == [isNull |-> TRUE, winnerIndex |-> -1, loserIndex |-> -1]

\* Variant: the check of the loser's index for -1 is left out.
resolveLadderMatchIndices_loserUnchecked(l, w, x) ==
    LET winnerIndex == findIndex(l, w)
        loserIndex == findIndex(l, x)
    IN IF winnerIndex = -1 \/ winnerIndex = loserIndex
       THEN nullIndices
       ELSE [isNull |-> FALSE, winnerIndex |-> winnerIndex,
             loserIndex |-> loserIndex]

resolveLadderMatchIndices(l, w, x) ==
    LET winnerIndex == findIndex(l, w)
        loserIndex == findIndex(l, x)
    IN IF winnerIndex = -1 \/ loserIndex = -1 \/ winnerIndex = loserIndex
       THEN nullIndices
       ELSE [isNull |-> FALSE, winnerIndex |-> winnerIndex,
             loserIndex |-> loserIndex]

\* The console.warn is not state.
isInvalidMatchResult(w, x) == ~(w # x)

\* Variant: the missing check is left out, the indices go straight to the
\* distance checks.
getChallengeStatus_noMissingCheck(l, c, o) ==
    IF c = o
    THEN ChallengeStatus(FALSE, "self")
    ELSE LET challengerIndex == findIndex(l, c)
             opponentIndex == findIndex(l, o)
             positionDifference == challengerIndex - opponentIndex
         IN IF positionDifference <= 0
            THEN ChallengeStatus(FALSE, "lower-ranked")
            ELSE IF positionDifference > maxChallengeDistance
                 THEN ChallengeStatus(FALSE, "too-far")
                 ELSE ChallengeStatus(TRUE, NoReason)

\* Variant: the window is one too small (>= for >).
getChallengeStatus_windowOffByOne(l, c, o) ==
    IF c = o
    THEN ChallengeStatus(FALSE, "self")
    ELSE LET challengerIndex == findIndex(l, c)
             opponentIndex == findIndex(l, o)
             positionDifference == challengerIndex - opponentIndex
         IN IF challengerIndex = -1 \/ opponentIndex = -1
            THEN ChallengeStatus(FALSE, "missing")
            ELSE IF positionDifference <= 0
                 THEN ChallengeStatus(FALSE, "lower-ranked")
                 ELSE IF positionDifference >= maxChallengeDistance
                      THEN ChallengeStatus(FALSE, "too-far")
                      ELSE ChallengeStatus(TRUE, NoReason)

\* Variant: the self check comes after the missing check.
getChallengeStatus_selfAfterMissing(l, c, o) ==
    LET challengerIndex == findIndex(l, c)
        opponentIndex == findIndex(l, o)
        positionDifference == challengerIndex - opponentIndex
    IN IF challengerIndex = -1 \/ opponentIndex = -1
       THEN ChallengeStatus(FALSE, "missing")
       ELSE IF c = o
            THEN ChallengeStatus(FALSE, "self")
            ELSE IF positionDifference <= 0
                 THEN ChallengeStatus(FALSE, "lower-ranked")
                 ELSE IF positionDifference > maxChallengeDistance
                      THEN ChallengeStatus(FALSE, "too-far")
                      ELSE ChallengeStatus(TRUE, NoReason)

\* Variant: the two rank-distance reasons are exchanged.
getChallengeStatus_reasonsExchanged(l, c, o) ==
    IF c = o
    THEN ChallengeStatus(FALSE, "self")
    ELSE LET challengerIndex == findIndex(l, c)
             opponentIndex == findIndex(l, o)
             positionDifference == challengerIndex - opponentIndex
         IN IF challengerIndex = -1 \/ opponentIndex = -1
            THEN ChallengeStatus(FALSE, "missing")
            ELSE IF positionDifference <= 0
                 THEN ChallengeStatus(FALSE, "too-far")
                 ELSE IF positionDifference > maxChallengeDistance
                      THEN ChallengeStatus(FALSE, "lower-ranked")
                      ELSE ChallengeStatus(TRUE, NoReason)

\* Variant: there is no upper limit on the distance.
getChallengeStatus_anyoneAbove(l, c, o) ==
    IF c = o
    THEN ChallengeStatus(FALSE, "self")
    ELSE LET challengerIndex == findIndex(l, c)
             opponentIndex == findIndex(l, o)
             positionDifference == challengerIndex - opponentIndex
         IN IF challengerIndex = -1 \/ opponentIndex = -1
            THEN ChallengeStatus(FALSE, "missing")
            ELSE IF positionDifference <= 0
                 THEN ChallengeStatus(FALSE, "lower-ranked")
                 ELSE ChallengeStatus(TRUE, NoReason)

getChallengeStatus(l, c, o) ==
    IF c = o
    THEN ChallengeStatus(FALSE, "self")
    ELSE LET challengerIndex == findIndex(l, c)
             opponentIndex == findIndex(l, o)
             positionDifference == challengerIndex - opponentIndex
         IN IF challengerIndex = -1 \/ opponentIndex = -1
            THEN ChallengeStatus(FALSE, "missing")
            ELSE IF positionDifference <= 0
                 THEN ChallengeStatus(FALSE, "lower-ranked")
                 ELSE IF positionDifference > maxChallengeDistance
                      THEN ChallengeStatus(FALSE, "too-far")
                      ELSE ChallengeStatus(TRUE, NoReason)

\* Variant: the winner is reinserted one place below the loser's index.
applyLadderResult_insertBelow(l, w, x) ==
    LET matchIndices == resolveLadderMatchIndices(l, w, x)
    IN IF matchIndices.isNull
       THEN l
       ELSE IF matchIndices.winnerIndex < matchIndices.loserIndex
            THEN l
            ELSE spliceInsert(spliceRemove(l, matchIndices.winnerIndex),
                              matchIndices.loserIndex + 1,
                              spliceRemoved(l, matchIndices.winnerIndex))

\* Variant: winner and loser trade places.
applyLadderResult_swap(l, w, x) ==
    LET matchIndices == resolveLadderMatchIndices(l, w, x)
    IN IF matchIndices.isNull
       THEN l
       ELSE IF matchIndices.winnerIndex < matchIndices.loserIndex
            THEN l
            ELSE [l EXCEPT ![matchIndices.winnerIndex + 1] =
                               l[matchIndices.loserIndex + 1],
                           ![matchIndices.loserIndex + 1] =
                               l[matchIndices.winnerIndex + 1]]

\* Variant: the early return for a winner already above the loser is left out.
applyLadderResult_alwaysMoves(l, w, x) ==
    LET matchIndices == resolveLadderMatchIndices(l, w, x)
    IN IF matchIndices.isNull
       THEN l
       ELSE spliceInsert(spliceRemove(l, matchIndices.winnerIndex),
                         matchIndices.loserIndex,
                         spliceRemoved(l, matchIndices.winnerIndex))

\* Variant: the winner is inserted at the loser's index without being taken
\* out of the old place first.
applyLadderResult_keepsOldEntry(l, w, x) ==
    LET matchIndices == resolveLadderMatchIndices(l, w, x)
    IN IF matchIndices.isNull
       THEN l
       ELSE IF matchIndices.winnerIndex < matchIndices.loserIndex
            THEN l
            ELSE spliceInsert(l, matchIndices.loserIndex,
                              l[matchIndices.winnerIndex + 1])

applyLadderResult(l, w, x) ==
    LET matchIndices == resolveLadderMatchIndices(l, w, x)
    IN IF matchIndices.isNull
       THEN l
       ELSE IF matchIndices.winnerIndex < matchIndices.loserIndex
            THEN l
            ELSE LET updated == l
                     winner == spliceRemoved(updated, matchIndices.winnerIndex)
                 IN spliceInsert(
                        spliceRemove(updated, matchIndices.winnerIndex),
                        matchIndices.loserIndex, winner)

\* Variant: the winner's wins are set to 1 instead of being raised by 1.
withResultCounted_winsSetToOne(l, winnerIndex, loserIndex) ==
    LET winner == l[winnerIndex + 1]
        loser == l[loserIndex + 1]
        afterWinner == [l EXCEPT ![winnerIndex + 1] =
                            [winner EXCEPT !.wins = 1]]
    IN [afterWinner EXCEPT ![loserIndex + 1] =
            [loser EXCEPT !.losses = loser.losses + 1]]

\* Variant: the loser's losses are left as they are.
withResultCounted_winnerOnly(l, winnerIndex, loserIndex) ==
    LET winner == l[winnerIndex + 1]
    IN [l EXCEPT ![winnerIndex + 1] =
            [winner EXCEPT !.wins = winner.wins + 1]]

\* updated[winnerIndex] = {...winner, wins: winner.wins + 1};
\* updated[loserIndex] = {...loser, losses: loser.losses + 1}
withResultCounted(l, winnerIndex, loserIndex) ==
    LET winner == l[winnerIndex + 1]
        loser == l[loserIndex + 1]
        afterWinner == [l EXCEPT ![winnerIndex + 1] =
                            [winner EXCEPT !.wins = winner.wins + 1]]
    IN [afterWinner EXCEPT ![loserIndex + 1] =
            [loser EXCEPT !.losses = loser.losses + 1]]

\* Variant: the early return for a winner already above the loser comes
\* before the counters are touched.
applyLadderResultWithStats_countsOnPromotion(l, w, x) ==
    IF isInvalidMatchResult(w, x)
    THEN l
    ELSE LET matchIndices == resolveLadderMatchIndices(l, w, x)
         IN IF matchIndices.isNull
            THEN l
            ELSE IF matchIndices.winnerIndex < matchIndices.loserIndex
                 THEN l
                 ELSE LET updated == withResultCounted(l,
                                         matchIndices.winnerIndex,
                                         matchIndices.loserIndex)
                      IN spliceInsert(
                             spliceRemove(updated, matchIndices.winnerIndex),
                             matchIndices.loserIndex,
                             spliceRemoved(updated, matchIndices.winnerIndex))

\* Variant: the updated winner and loser trade places.
applyLadderResultWithStats_swap(l, w, x) ==
    IF isInvalidMatchResult(w, x)
    THEN l
    ELSE LET matchIndices == resolveLadderMatchIndices(l, w, x)
         IN IF matchIndices.isNull
            THEN l
            ELSE LET updated == withResultCounted(l, matchIndices.winnerIndex,
                                                  matchIndices.loserIndex)
                 IN IF matchIndices.winnerIndex < matchIndices.loserIndex
                    THEN updated
                    ELSE [updated EXCEPT
                             ![matchIndices.winnerIndex + 1] =
                                 updated[matchIndices.loserIndex + 1],
                             ![matchIndices.loserIndex + 1] =
                                 updated[matchIndices.winnerIndex + 1]]

\* Variant: the winner is reinserted at the top of the ladder.
applyLadderResultWithStats_toTop(l, w, x) ==
    IF isInvalidMatchResult(w, x)
    THEN l
    ELSE LET matchIndices == resolveLadderMatchIndices(l, w, x)
         IN IF matchIndices.isNull
            THEN l
            ELSE LET updated == withResultCounted(l, matchIndices.winnerIndex,
                                                  matchIndices.loserIndex)
                     movedWinner ==
                         spliceRemoved(updated, matchIndices.winnerIndex)
                 IN IF matchIndices.winnerIndex < matchIndices.loserIndex
                    THEN updated
                    ELSE spliceInsert(
                             spliceRemove(updated, matchIndices.winnerIndex),
                             0, movedWinner)

applyLadderResultWithStats(l, w, x) ==
    IF isInvalidMatchResult(w, x)
    THEN l
    ELSE LET matchIndices == resolveLadderMatchIndices(l, w, x)
         IN IF matchIndices.isNull
            THEN l
            ELSE LET updated == withResultCounted(l, matchIndices.winnerIndex,
                                                  matchIndices.loserIndex)
                     movedWinner ==
                         spliceRemoved(updated, matchIndices.winnerIndex)
                 IN IF matchIndices.winnerIndex < matchIndices.loserIndex
                    THEN updated
                    ELSE spliceInsert(
                             spliceRemove(updated, matchIndices.winnerIndex),
                             matchIndices.loserIndex, movedWinner)

\* Variant: the stats update also promotes the winner.
updatePlayerStats_promotes(l, w, x) ==
    IF isInvalidMatchResult(w, x)
    THEN l
    ELSE applyLadderResult(
             [i \in 1..Len(l) |->
                 IF l[i].id = w
                 THEN [l[i] EXCEPT !.wins = l[i].wins + 1]
                 ELSE IF l[i].id = x
                      THEN [l[i] EXCEPT !.losses = l[i].losses + 1]
                      ELSE l[i]], w, x)

updatePlayerStats(l, w, x) ==
    IF isInvalidMatchResult(w, x)
    THEN l
    ELSE [i \in 1..Len(l) |->
             IF l[i].id = w
             THEN [l[i] EXCEPT !.wins = l[i].wins + 1]
             ELSE IF l[i].id = x
                  THEN [l[i] EXCEPT !.losses = l[i].losses + 1]
                  ELSE l[i]]

\* users.map((user) => ({id: user.uid, name: ..., ...getPlayerStats(user)}))
mapUsers(list) ==
    [i \in 1..Len(list) |->
        LadderPlayer(list[i].uid, getPlayerName(list[i]),
                     getPlayerStats(list[i]).wins,
                     getPlayerStats(list[i]).losses)]

\* mappedUsers.filter((user) => participantSet.has(user.id))
filterParticipants(players, ids) ==
    LET has(player) == player.id \in ids
    IN SelectSeq(players, has)

\* Variant: a session user who is not in the list is appended whatever the
\* participant filter says.
buildLadderPlayers_alwaysAppends(u, cu, pids) ==
    LET mappedUsers ==
            IF u.defined /\ Len(u.list) > 0
            THEN mapUsers(u.list)
            ELSE mockLadderPlayers
        filteredUsers ==
            IF pids.defined /\ Cardinality(pids.ids) > 0
            THEN filterParticipants(mappedUsers, pids.ids)
            ELSE mappedUsers
        sortedPlayers == sortByName(filteredUsers)
        currentUserInList ==
            \E i \in 1..Len(sortedPlayers) : sortedPlayers[i].id = cu.uid
    IN IF cu.isNull
       THEN sortedPlayers
       ELSE IF currentUserInList
            THEN sortedPlayers
            ELSE sortedPlayers \o
                     <<LadderPlayer(cu.uid, getPlayerName(cu), 0, 0)>>

\* Variant: an empty participant list filters like any other list.
buildLadderPlayers_emptyListFilters(u, cu, pids) ==
    LET mappedUsers ==
            IF u.defined /\ Len(u.list) > 0
            THEN mapUsers(u.list)
            ELSE mockLadderPlayers
        filteredUsers ==
            IF pids.defined
            THEN filterParticipants(mappedUsers, pids.ids)
            ELSE mappedUsers
        sortedPlayers == sortByName(filteredUsers)
        currentUserInList ==
            \E i \in 1..Len(sortedPlayers) : sortedPlayers[i].id = cu.uid
        shouldIncludeCurrentUser ==
            \/ ~pids.defined
            \/ cu.uid \in pids.ids
    IN IF cu.isNull
       THEN sortedPlayers
       ELSE IF currentUserInList
            THEN sortedPlayers
            ELSE IF shouldIncludeCurrentUser
                 THEN sortedPlayers \o
                          <<LadderPlayer(cu.uid, getPlayerName(cu), 0, 0)>>
                 ELSE sortedPlayers

\* Variant: the placeholder roster stands in only for an absent users value,
\* not for an empty list.
buildLadderPlayers_noRosterForEmpty(u, cu, pids) ==
    LET mappedUsers ==
            IF u.defined
            THEN mapUsers(u.list)
            ELSE mockLadderPlayers
        filteredUsers ==
            IF pids.defined /\ Cardinality(pids.ids) > 0
            THEN filterParticipants(mappedUsers, pids.ids)
            ELSE mappedUsers
        sortedPlayers == sortByName(filteredUsers)
        currentUserInList ==
            \E i \in 1..Len(sortedPlayers) : sortedPlayers[i].id = cu.uid
        shouldIncludeCurrentUser ==
            \/ ~pids.defined
            \/ Cardinality(pids.ids) = 0
            \/ cu.uid \in pids.ids
    IN IF cu.isNull
       THEN sortedPlayers
       ELSE IF currentUserInList
            THEN sortedPlayers
            ELSE IF shouldIncludeCurrentUser
                 THEN sortedPlayers \o
                          <<LadderPlayer(cu.uid, getPlayerName(cu), 0, 0)>>
                 ELSE sortedPlayers

buildLadderPlayers(u, cu, pids) ==
    LET mappedUsers ==
            IF u.defined /\ Len(u.list) > 0
            THEN mapUsers(u.list)
            ELSE mockLadderPlayers
        filteredUsers ==
            IF pids.defined /\ Cardinality(pids.ids) > 0
            THEN filterParticipants(mappedUsers, pids.ids)
            ELSE mappedUsers
        sortedPlayers == sortByName(filteredUsers)
        currentUserInList ==
            \E i \in 1..Len(sortedPlayers) : sortedPlayers[i].id = cu.uid
        shouldIncludeCurrentUser ==
            \/ ~pids.defined
            \/ Cardinality(pids.ids) = 0
            \/ cu.uid \in pids.ids
    IN IF cu.isNull
       THEN sortedPlayers
       ELSE IF currentUserInList
            THEN sortedPlayers
            ELSE IF shouldIncludeCurrentUser
                 THEN sortedPlayers \o
                          <<LadderPlayer(cu.uid, getPlayerName(cu), 0, 0)>>
                 ELSE sortedPlayers

\* !x for an optional string
falsy(id) == id = NoId \/ id = EmptyId

\* Variant: only playerAId is looked at.
bookingToLadderMatch_onlyPlayerA(b) ==
    IF falsy(b.playerAId)
    THEN nullMatch
    ELSE LadderMatch(b.id, b.playerAId, b.playerBId, b.id, b.startDate,
                     b.endDate,
                     IF b.ladderStatus # undefined
                     THEN b.ladderStatus ELSE "planned",
                     b.winnerId, b.comment)

\* Variant: the status is "planned" whatever the record says.
bookingToLadderMatch_alwaysPlanned(b) ==
    IF falsy(b.playerAId) \/ falsy(b.playerBId)
    THEN nullMatch
    ELSE LadderMatch(b.id, b.playerAId, b.playerBId, b.id, b.startDate,
                     b.endDate, "planned", b.winnerId, b.comment)

bookingToLadderMatch(b) ==
    IF falsy(b.playerAId) \/ falsy(b.playerBId)
    THEN nullMatch
    ELSE LadderMatch(b.id, b.playerAId, b.playerBId, b.id, b.startDate,
                     b.endDate,
                     IF b.ladderStatus # undefined
                     THEN b.ladderStatus ELSE "planned",
                     b.winnerId, b.comment)

----------------------------------------------------------------------------
\* The arrays and objects of a call. arrays[r] is the array with reference r,
\* a sequence of object references; objects[o] is the player record with
\* reference o. The ladder argument is array 1.

Heap(arrays, objects) == [arrays |-> arrays, objects |-> objects]

\* The heap a call finds: the argument array and its player records.
Loaded(players) == Heap(<<[i \in 1..Len(players) |-> i]>>, players)

\* The array of reference r as a sequence of player records.
deref(h, r) == [i \in 1..Len(h.arrays[r]) |-> h.objects[h.arrays[r][i]]]

\* What a statement leaves: the heap and the reference it evaluates to.
Evaluated(h, ref) == [heap |-> h, ref |-> ref]

\* Variant: `const updated = ladder`, a second name for the same array.
spreadArray_alias(h, r) == Evaluated(h, r)

\* [...ladder]: a new array with the same elements
spreadArray(h, r) ==
    Evaluated(Heap(Append(h.arrays, h.arrays[r]), h.objects),
              Len(h.arrays) + 1)

\* {...player, wins: player.wins + 1}: a new object
spreadWithWin(h, o) ==
    Evaluated(Heap(h.arrays,
                   Append(h.objects,
                          [h.objects[o] EXCEPT !.wins = h.objects[o].wins + 1])),
              Len(h.objects) + 1)

\* {...player, losses: player.losses + 1}: a new object
spreadWithLoss(h, o) ==
    Evaluated(Heap(h.arrays,
                   Append(h.objects,
                          [h.objects[o] EXCEPT
                              !.losses = h.objects[o].losses + 1])),
              Len(h.objects) + 1)

\* updated[index] = o
assignElement(h, r, index, o) ==
    LET assigned == [i \in 1..Len(h.arrays[r]) |->
                        IF i = index + 1 THEN o ELSE h.arrays[r][i]]
    IN Heap([k \in 1..Len(h.arrays) |->
                IF k = r THEN assigned ELSE h.arrays[k]],
            h.objects)

\* const [winner] = updated.splice(winnerIndex, 1);
\* updated.splice(loserIndex, 0, winner)
spliceWinnerToLoser(h, r, winnerIndex, loserIndex) ==
    LET winner == spliceRemoved(h.arrays[r], winnerIndex)
        spliced == spliceInsert(spliceRemove(h.arrays[r], winnerIndex),
                                loserIndex, winner)
    IN Heap([k \in 1..Len(h.arrays) |->
                IF k = r THEN spliced ELSE h.arrays[k]],
            h.objects)

\* applyLadderResult as it acts on the heap
applyLadderResultOnHeap(h, r, w, x) ==
    LET matchIndices == resolveLadderMatchIndices(deref(h, r), w, x)
    IN IF matchIndices.isNull
       THEN Evaluated(h, r)
       ELSE IF matchIndices.winnerIndex < matchIndices.loserIndex
            THEN Evaluated(h, r)
            ELSE LET updated == spreadArray(h, r)
                 IN Evaluated(
                        spliceWinnerToLoser(updated.heap, updated.ref,
                                            matchIndices.winnerIndex,
                                            matchIndices.loserIndex),
                        updated.ref)

\* applyLadderResultWithStats as it acts on the heap. The indices that
\* resolveLadderMatchIndices returns are inside the array; an index outside it
\* names no element to replace.
applyLadderResultWithStatsOnHeap(h, r, w, x) ==
    IF isInvalidMatchResult(w, x)
    THEN Evaluated(h, r)
    ELSE LET matchIndices == resolveLadderMatchIndices(deref(h, r), w, x)
         IN IF matchIndices.isNull
            THEN Evaluated(h, r)
            ELSE LET winnerIndex == matchIndices.winnerIndex
                     loserIndex == matchIndices.loserIndex
                     updated == spreadArray(h, r)
                     winner == updated.heap.arrays[updated.ref][winnerIndex + 1]
                     loser == updated.heap.arrays[updated.ref][loserIndex + 1]
                     inside(index) == index + 1 \in 1..Len(deref(h, r))
                     newWinner == IF inside(winnerIndex)
                                  THEN spreadWithWin(updated.heap, winner)
                                  ELSE Evaluated(updated.heap, 0)
                     winnerSet == assignElement(newWinner.heap, updated.ref,
                                                winnerIndex, newWinner.ref)
                     newLoser == IF inside(loserIndex)
                                 THEN spreadWithLoss(winnerSet, loser)
                                 ELSE Evaluated(winnerSet, 0)
                     loserSet == assignElement(newLoser.heap, updated.ref,
                                               loserIndex, newLoser.ref)
                 IN IF winnerIndex < loserIndex
                    THEN Evaluated(loserSet, updated.ref)
                    ELSE Evaluated(
                             spliceWinnerToLoser(loserSet, updated.ref,
                                                 winnerIndex, loserIndex),
                             updated.ref)

\* ladder.map((player) => ...) from element i on: `mapped` holds the results
\* for the elements before i.
RECURSIVE mapPlayers(_, _, _, _, _, _)
mapPlayers(h, r, w, x, i, mapped) ==
    IF i > Len(h.arrays[r])
    THEN Evaluated(Heap(Append(h.arrays, mapped), h.objects),
                   Len(h.arrays) + 1)
    ELSE LET player == h.arrays[r][i]
             result ==
                 IF h.objects[player].id = w
                 THEN spreadWithWin(h, player)
                 ELSE IF h.objects[player].id = x
                      THEN spreadWithLoss(h, player)
                      ELSE Evaluated(h, player)
         IN mapPlayers(result.heap, r, w, x, i + 1,
                       Append(mapped, result.ref))

\* updatePlayerStats as it acts on the heap
updatePlayerStatsOnHeap(h, r, w, x) ==
    IF isInvalidMatchResult(w, x)
    THEN Evaluated(h, r)
    ELSE mapPlayers(h, r, w, x, 1, <<>>)

\* The argument array, and the array returned, as the caller finds them after
\* the call.
argumentAfter(call) == deref(call.heap, 1)
returnedBy(call) == deref(call.heap, call.ref)

----------------------------------------------------------------------------
\* Availability of a time slot (bookingsApi.checkAvailabilityFromBookings)

\* A date string: an ISO datetime of the hour h, a string that is no date,
\* and the empty string.
IsoDate(h) == [kind |-> "iso", hour |-> h]
InvalidDateString == [kind |-> "invalid", hour |-> 0]
EmptyDateString == [kind |-> "empty", hour |-> 0]

\* new Date(string).getTime(): the time as a number, NaN for a string that
\* is no date
getTime(date) ==
    IF date.kind = "iso"
    THEN [nan |-> FALSE, time |-> date.hour]
    ELSE [nan |-> TRUE, time |-> 0]

\* a < b on numbers: false when one of them is NaN
lessThan(a, b) == ~a.nan /\ ~b.nan /\ a.time < b.time

\* The fields of a Booking the check reads, and its id.
SlotBooking(id, startDate, endDate) ==
    [id |-> id, startDate |-> startDate, endDate |-> endDate]

\* Variant: the comparisons admit equal times.
checkAvailabilityFromBookings_touching(startDate, endDate, bookings) ==
    LET requestedStart == getTime(startDate)
        requestedEnd == getTime(endDate)
        conflicts(b) ==
            LET bookingStart == getTime(b.startDate)
                bookingEnd == getTime(b.endDate)
            IN /\ ~lessThan(requestedEnd, bookingStart)
               /\ ~lessThan(bookingEnd, requestedStart)
        conflictingBookings == SelectSeq(bookings, conflicts)
    IN [isAvailable |-> Len(conflictingBookings) = 0,
        conflictingBookings |-> conflictingBookings]

checkAvailabilityFromBookings(startDate, endDate, bookings) ==
    LET requestedStart == getTime(startDate)
        requestedEnd == getTime(endDate)
        conflicts(b) ==
            LET bookingStart == getTime(b.startDate)
                bookingEnd == getTime(b.endDate)
            IN /\ lessThan(bookingStart, requestedEnd)
               /\ lessThan(requestedStart, bookingEnd)
        conflictingBookings == SelectSeq(bookings, conflicts)
    IN [isAvailable |-> Len(conflictingBookings) = 0,
        conflictingBookings |-> conflictingBookings]

----------------------------------------------------------------------------
\* The matches of a ladder (hooks/useLadderMatches: buildLadderMatches)

\* A booking of a ladder: a Booking with the ladderId the filter reads.
LadderBooking(id, ladderId, playerAId, playerBId, startDate) ==
    [id |-> id, ladderId |-> ladderId, startDate |-> startDate,
     endDate |-> startDate, playerAId |-> playerAId, playerBId |-> playerBId,
     ladderStatus |-> undefined, winnerId |-> NoId, comment |-> undefined]

\* bookings: Booking[] | undefined
BookingList(list) == [defined |-> TRUE, list |-> list]
NoBookingList == [defined |-> FALSE, list |-> <<>>]

\* a.bookingStart ? new Date(a.bookingStart).getTime() : 0
startTime(m) ==
    IF m.bookingStart = EmptyDateString
    THEN 0
    ELSE getTime(m.bookingStart).time

\* .sort((a, b) => bTime - aTime): stable, the later start first
RECURSIVE sortByStartDescending(_)
sortByStartDescending(matches) ==
    IF Len(matches) <= 1
    THEN matches
    ELSE LET front == sortByStartDescending(
                          SubSeq(matches, 1, Len(matches) - 1))
             last == matches[Len(matches)]
             ahead == {i \in 1..Len(front) :
                          startTime(last) - startTime(front[i]) <= 0}
             place == IF ahead = {} THEN 0
                      ELSE CHOOSE i \in ahead : \A j \in ahead : j <= i
         IN SubSeq(front, 1, place) \o <<last>>
                \o SubSeq(front, place + 1, Len(front))

\* .map(bookingToLadderMatch)
mapBookings(list) == [i \in 1..Len(list) |-> bookingToLadderMatch(list[i])]

\* Variant: the earlier start first.
buildLadderMatches_ascending(bookings, ladderId) ==
    LET ofLadder(b) ==
            ladderId = undefined \/ ladderId = "" \/ b.ladderId = ladderId
        isLadderMatch(m) == ~m.isNull
        found == SelectSeq(mapBookings(SelectSeq(bookings.list, ofLadder)),
                           isLadderMatch)
        reversed == [i \in 1..Len(found) |-> found[Len(found) + 1 - i]]
        sorted == sortByStartDescending(reversed)
    IN [i \in 1..Len(sorted) |-> sorted[Len(sorted) + 1 - i]]

buildLadderMatches(bookings, ladderId) ==
    LET ofLadder(b) ==
            ladderId = undefined \/ ladderId = "" \/ b.ladderId = ladderId
        isLadderMatch(m) == ~m.isNull
    IN sortByStartDescending(
           SelectSeq(mapBookings(SelectSeq(bookings.list, ofLadder)),
                     isLadderMatch))

----------------------------------------------------------------------------
\* The cached list of bookings and the mutations that update it
\* optimistically (hooks/useBookings)

\* The id of a stored booking, and `temp-${Date.now()}`.
StoredId(n) == [temp |-> FALSE, n |-> n]
TempId(now) == [temp |-> TRUE, n |-> now]

\* The fields of a cached Booking the mutations read.
CachedBooking(id, startDate) == [id |-> id, startDate |-> startDate]

\* queryClient.getQueryData(bookingKeys.list()): a list, or undefined when
\* nothing is cached
Cached(list) == [defined |-> TRUE, list |-> list]
NothingCached == [defined |-> FALSE, list |-> <<>>]

\* (old = []) => ...: the default of the updater's parameter
orEmpty(data) == IF data.defined THEN data.list ELSE <<>>

\* updated.sort((a, b) => new Date(b.startDate).getTime()
\*                          - new Date(a.startDate).getTime())
RECURSIVE sortByStartDateDescending(_)
sortByStartDateDescending(bookings) ==
    IF Len(bookings) <= 1
    THEN bookings
    ELSE LET front == sortByStartDateDescending(
                          SubSeq(bookings, 1, Len(bookings) - 1))
             last == bookings[Len(bookings)]
             ahead == {i \in 1..Len(front) :
                          getTime(last.startDate).time
                              - getTime(front[i].startDate).time <= 0}
             place == IF ahead = {} THEN 0
                      ELSE CHOOSE i \in ahead : \A j \in ahead : j <= i
         IN SubSeq(front, 1, place) \o <<last>>
                \o SubSeq(front, place + 1, Len(front))

\* useCreateBookingMutation.onMutate: the cache after the optimistic update
createOnMutate(data, newBooking, now) ==
    LET optimisticBooking == CachedBooking(TempId(now), newBooking.startDate)
    IN Cached(sortByStartDateDescending(
                  <<optimisticBooking>> \o orEmpty(data)))

\* useCreateBookingMutation.onSuccess: the cache with the created booking
createOnSuccess(data, created) ==
    LET notTemp(b) == ~b.id.temp
        withoutTemp == SelectSeq(orEmpty(data), notTemp)
    IN Cached(sortByStartDateDescending(<<created>> \o withoutTemp))

\* useDeleteBookingMutation.onMutate: the cache after the optimistic update
deleteOnMutate(data, bookingId) ==
    LET others(b) == b.id # bookingId
    IN Cached(SelectSeq(orEmpty(data), others))

\* onError of both mutations: the cache after
\* if (context?.previousBookings) setQueryData(list, context.previousBookings)
rollBack(data, previousBookings) ==
    IF previousBookings.defined THEN previousBookings ELSE data

----------------------------------------------------------------------------
\* The ladder page (Stegen)

\* The ids of lib/mockedUsers ("mock-user-1" .. "mock-user-6").
MockUserId(i) == 200 + i

\* export const mockedUsers: User[]
mockedUsers ==
    << User(MockUserId(1), Email("elin.andersson"), "Elin Andersson",
            JsNumber(0), JsNumber(0)),
       User(MockUserId(2), Email("johan.larsson"), "Johan Larsson",
            JsNumber(0), JsNumber(0)),
       User(MockUserId(3), Email("sara.nilsson"), "Sara Nilsson",
            JsNumber(0), JsNumber(0)),
       User(MockUserId(4), Email("oskar.svensson"), "Oskar Svensson",
            JsNumber(0), JsNumber(0)),
       User(MockUserId(5), Email("lina.berg"), "Lina Berg",
            JsNumber(0), JsNumber(0)),
       User(MockUserId(6), Email("erik.persson"), "Erik Persson",
            JsNumber(0), JsNumber(0)) >>

\* useState<LadderPlayer[] | null>(null)
noOverride == [isNull |-> TRUE, value |-> <<>>]
Override(players) == [isNull |-> FALSE, value |-> players]

\* useState<LadderPlayer | null>(null)
noOpponent == [isNull |-> TRUE, value |-> undefinedPlayer]
Selected(player) == [isNull |-> FALSE, value |-> player]

\* useState<string | null>(null) of the challenge message
noMessage == "null"

\* const challengeReasonMessages: Record<ChallengeReason, string>
challengeReasonMessages(reason) ==
    IF reason = "self" THEN "Du kan inte utmana dig själv."
    ELSE IF reason = "lower-ranked"
    THEN "Du kan bara utmana spelare som ligger högre upp på stegen."
    ELSE IF reason = "too-far"
    THEN "Du kan bara utmana spelare upp till fyra placeringar ovanför dig."
    ELSE IF reason = "missing"
    THEN "Spelaren kunde inte hittas i stegen."
    ELSE undefined

\* interface ReportDraft { winnerId?: string; comment: string }; a match
\* without an entry in reportDrafts has present = FALSE.
ReportDraft(winner, comment) ==
    [present |-> TRUE, winnerId |-> winner, comment |-> comment]
noDraft == [present |-> FALSE, winnerId |-> NoId, comment |-> undefined]

\* The data of useActiveLadderQuery is read through its participants only:
\* Participants(ids) for a ladder, NoParticipants when there is no ladder.

\* Variant: every signed-in user counts as a participant.
isUserParticipant_anyUser(user, activeLadder) == ~user.isNull

\* user && activeLadder ? activeLadder.participants.includes(user.uid) : false
isUserParticipant(user, activeLadder) ==
    IF ~user.isNull /\ activeLadder.defined
    THEN user.uid \in activeLadder.ids
    ELSE FALSE

\* const basePlayers = useMemo(...)
basePlayers(isLoading, usersData, user, activeLadder) ==
    IF isLoading
    THEN <<>>
    ELSE LET notMocked(u) ==
                 \A i \in 1..Len(mockedUsers) : mockedUsers[i].uid # u.uid
             additionalUsers ==
                 IF usersData.defined /\ Len(usersData.list) > 0
                 THEN SelectSeq(usersData.list, notMocked)
                 ELSE <<>>
         IN buildLadderPlayers(UserList(mockedUsers \o additionalUsers),
                               user, activeLadder)

\* const ladder = useMemo(...): the override with the players it lacks
\* appended.
ladderShown(base, ladderOverride) ==
    IF Len(base) = 0
    THEN <<>>
    ELSE IF ladderOverride.isNull
         THEN base
         ELSE LET missing(player) ==
                      \A i \in 1..Len(ladderOverride.value) :
                          ladderOverride.value[i].id # player.id
                  missingPlayers == SelectSeq(base, missing)
              IN IF Len(missingPlayers) = 0
                 THEN ladderOverride.value
                 ELSE ladderOverride.value \o missingPlayers

\* new Set((users ?? []).map((currentUser) => currentUser.uid))
knownUserIds(usersData) ==
    IF usersData.defined
    THEN {usersData.list[i].uid : i \in 1..Len(usersData.list)}
    ELSE {}

\* interface UserStatsUpdate { uid; ladderWins; ladderLosses }
StatsUpdate(player) ==
    [uid |-> player.id, ladderWins |-> player.wins,
     ladderLosses |-> player.losses]

\* Variant: the players are not restricted to the known users.
buildStatsUpdates_everyPlayer(l, playerIds, known) ==
    LET listed(id) == \E i \in 1..Len(l) : l[i].id = id
        found == SelectSeq(playerIds, listed)
        get(id) == l[CHOOSE i \in 1..Len(l) :
                        /\ l[i].id = id
                        /\ \A j \in (i + 1)..Len(l) : l[j].id # id]
    IN [k \in 1..Len(found) |-> StatsUpdate(get(found[k]))]

\* const buildStatsUpdates = (ladder, playerIds, knownUserIds) => ...; a
\* Map built from pairs keeps the last pair of a key.
buildStatsUpdates(l, playerIds, known) ==
    LET listed(id) == \E i \in 1..Len(l) : l[i].id = id
        kept(id) == listed(id) /\ id \in known
        found == SelectSeq(playerIds, kept)
        get(id) == l[CHOOSE i \in 1..Len(l) :
                        /\ l[i].id = id
                        /\ \A j \in (i + 1)..Len(l) : l[j].id # id]
    IN [k \in 1..Len(found) |-> StatsUpdate(get(found[k]))]

\* handleSelectOpponent: the challenge message and the selected opponent it
\* sets.
Selection(message, opponent) ==
    [challengeMessage |-> message, selectedOpponent |-> opponent]

handleSelectOpponent(user, activeLadder, shown, opponent) ==
    IF user.isNull
    THEN Selection("Logga in för att kunna utmana en spelare.", noOpponent)
    ELSE IF ~isUserParticipant(user, activeLadder)
    THEN Selection(
             "Du måste gå med i stegen för att kunna utmana en spelare.",
             noOpponent)
    ELSE LET challenge == getChallengeStatus(shown, user.uid, opponent.id)
             reason ==
                 IF /\ challenge.reason # NoReason
                    /\ challengeReasonMessages(challenge.reason) # undefined
                 THEN challengeReasonMessages(challenge.reason)
                 ELSE "Utmaningen kunde inte startas."
         IN IF ~challenge.eligible
            THEN Selection(reason, noOpponent)
            ELSE Selection(noMessage, Selected(opponent))

----------------------------------------------------------------------------
\* The parts of the application that are not in use

NoPage == [mounted |-> FALSE]
NoCache == [mounted |-> FALSE]
NoAvailability == [called |-> FALSE]
NoLadderMatches == [called |-> FALSE]

AppIdle ==
    /\ counted = 0
    /\ page = NoPage
    /\ cache = NoCache
    /\ availability = NoAvailability
    /\ ladderMatches = NoLadderMatches

----------------------------------------------------------------------------
\* The state machine

Init ==
    /\ \E n \in 0..MaxPlayers, seasoned \in BOOLEAN :
           ladder = InitialLadder(n, seasoned)
    /\ input = <<>>
    /\ argument = <<>>
    /\ op = "init"
    /\ winnerId = NoId
    /\ loserId = NoId
    /\ challengerId = NoId
    /\ opponentId = NoId
    /\ status = NoStatus
    /\ calls = 0
    /\ users = NoUsers
    /\ currentUser = NoSession
    /\ participantIds = NoParticipants
    /\ booking = NoBooking
    /\ match = nullMatch
    /\ AppIdle

\* What every result-processing call records about itself.
Recorded(name, w, x) ==
    /\ calls' = calls + 1
    /\ input' = ladder
    /\ op' = name
    /\ winnerId' = w
    /\ loserId' = x
    /\ challengerId' = NoId
    /\ opponentId' = NoId
    /\ status' = NoStatus
    /\ UNCHANGED <<buildVars, projectionVars, appVars>>

ResultCall(name, w, x) ==
    /\ calls < MaxCalls
    /\ Recorded(name, w, x)

ApplyLadderResult(w, x) ==
    /\ ResultCall("applyLadderResult", w, x)
    /\ ladder' = applyLadderResult(ladder, w, x)
    /\ argument' = argumentAfter(applyLadderResultOnHeap(Loaded(ladder), 1, w, x))

UpdatePlayerStats(w, x) ==
    /\ ResultCall("updatePlayerStats", w, x)
    /\ ladder' = updatePlayerStats(ladder, w, x)
    /\ argument' = argumentAfter(updatePlayerStatsOnHeap(Loaded(ladder), 1, w, x))

ApplyLadderResultWithStats(w, x) ==
    /\ ResultCall("applyLadderResultWithStats", w, x)
    /\ ladder' = applyLadderResultWithStats(ladder, w, x)
    /\ argument' =
           argumentAfter(applyLadderResultWithStatsOnHeap(Loaded(ladder), 1, w, x))

GetChallengeStatus(c, o) ==
    /\ calls < MaxCalls
    /\ calls' = calls + 1
    /\ input' = ladder
    /\ argument' = ladder
    /\ op' = "getChallengeStatus"
    /\ challengerId' = c
    /\ opponentId' = o
    /\ winnerId' = NoId
    /\ loserId' = NoId
    /\ status' = getChallengeStatus(ladder, c, o)
    /\ UNCHANGED <<ladder, buildVars, projectionVars, appVars>>

\* The ids a caller passes: those of the ladder's players and unknown ones.
Ids(l) == {l[i].id : i \in 1..Len(l)} \cup {UnknownId, OtherUnknownId}

Next ==
    \E a \in Ids(ladder), b \in Ids(ladder) :
        \/ ApplyLadderResult(a, b)
        \/ UpdatePlayerStats(a, b)
        \/ ApplyLadderResultWithStats(a, b)
        \/ GetChallengeStatus(a, b)

Spec == Init /\ [][Next]_vars

----------------------------------------------------------------------------
\* The registry on its own: buildLadderPlayers applied to every input.

DistinctUids(list) ==
    \A i, j \in 1..Len(list) : list[i].uid = list[j].uid => i = j

\* Every list, in every order, of up to n user records with unique uids.
UserLists(n) ==
    LET records == {StoredUser(i) : i \in 1..n} \cup {BareUser(i) : i \in 1..n}
    IN {list \in UNION {[1..k -> records] : k \in 0..n} : DistinctUids(list)}

\* The session user of the registry tests (a listed user), one who is in no
\* user list, and one with the id of a placeholder player.
ListedSessionUser == AuthUser(2, Email("bob"), "Bob")
OutsideSessionUser == AuthUser(OutsiderId, Email("dana"), undefined)
MockSessionUser == AuthUser(MockId(1), NoEmail, "Elin Andersson")

\* No filter, or any set of user ids, the outsider and one placeholder.
ParticipantLists(n) ==
    {NoParticipants} \cup
    {Participants(ids) : ids \in SUBSET ((1..n) \cup {OutsiderId, MockId(1)})}

\* The other variables as Init has them.
NothingCalled ==
    /\ ladder = <<>>
    /\ input = <<>>
    /\ argument = <<>>
    /\ op = "init"
    /\ winnerId = NoId
    /\ loserId = NoId
    /\ challengerId = NoId
    /\ opponentId = NoId
    /\ status = NoStatus
    /\ calls = 0

\* The ladder functions and the projection have not been used.
LadderIdle ==
    /\ NothingCalled
    /\ users = NoUsers
    /\ currentUser = NoSession
    /\ participantIds = NoParticipants
    /\ booking = NoBooking
    /\ match = nullMatch

BuildInit ==
    /\ NothingCalled
    /\ AppIdle
    /\ users \in {NoUsers} \cup {UserList(list) : list \in UserLists(MaxUsers)}
    /\ currentUser \in {NoSession, ListedSessionUser, OutsideSessionUser,
                        MockSessionUser}
    /\ participantIds \in ParticipantLists(MaxUsers)
    /\ booking = NoBooking
    /\ match = nullMatch

BuildLadderPlayers ==
    /\ op = "init"
    /\ op' = "buildLadderPlayers"
    /\ ladder' = buildLadderPlayers(users, currentUser, participantIds)
    /\ UNCHANGED <<input, argument, winnerId, loserId, challengerId,
                   opponentId, status, calls, buildVars, projectionVars, appVars>>

BuildNext == BuildLadderPlayers

BuildSpec == BuildInit /\ [][BuildNext]_vars

----------------------------------------------------------------------------
\* A season: the ladder is built, then results are processed one after the
\* other, each call on the ladder the previous one returned.

SeqInit ==
    /\ NothingCalled
    /\ AppIdle
    /\ users \in {UserList([i \in 1..k |-> StoredUser(i)]) :
                     k \in 1..MaxSeqUsers}
    /\ currentUser \in {NoSession, ListedSessionUser, OutsideSessionUser}
    /\ participantIds \in {NoParticipants, Participants({}),
                           Participants({2, OutsiderId})}
    /\ booking = NoBooking
    /\ match = nullMatch

SeqCall(name, w, x) ==
    /\ op # "init"
    /\ calls < MaxSeqCalls
    /\ Recorded(name, w, x)

SeqApplyLadderResult(w, x) ==
    /\ SeqCall("applyLadderResult", w, x)
    /\ ladder' = applyLadderResult(ladder, w, x)
    /\ argument' = argumentAfter(applyLadderResultOnHeap(Loaded(ladder), 1, w, x))

SeqUpdatePlayerStats(w, x) ==
    /\ SeqCall("updatePlayerStats", w, x)
    /\ ladder' = updatePlayerStats(ladder, w, x)
    /\ argument' = argumentAfter(updatePlayerStatsOnHeap(Loaded(ladder), 1, w, x))

SeqApplyLadderResultWithStats(w, x) ==
    /\ SeqCall("applyLadderResultWithStats", w, x)
    /\ ladder' = applyLadderResultWithStats(ladder, w, x)
    /\ argument' =
           argumentAfter(applyLadderResultWithStatsOnHeap(Loaded(ladder), 1, w, x))

SeqNext ==
    \/ BuildLadderPlayers
    \/ \E a \in Ids(ladder), b \in Ids(ladder) :
          \/ SeqApplyLadderResult(a, b)
          \/ SeqUpdatePlayerStats(a, b)
          \/ SeqApplyLadderResultWithStats(a, b)

SeqSpec == SeqInit /\ [][SeqNext]_vars

----------------------------------------------------------------------------
\* A tally: results are processed with applyLadderResultWithStats, one after
\* the other, on a ladder in which nobody has played yet. `counted` is the
\* number of calls so far whose winner and loser were two players of the
\* ladder.

TallyInit ==
    /\ \E n \in 0..MaxTallyPlayers : ladder = InitialLadder(n, FALSE)
    /\ input = <<>>
    /\ argument = <<>>
    /\ op = "init"
    /\ winnerId = NoId
    /\ loserId = NoId
    /\ challengerId = NoId
    /\ opponentId = NoId
    /\ status = NoStatus
    /\ calls = 0
    /\ users = NoUsers
    /\ currentUser = NoSession
    /\ participantIds = NoParticipants
    /\ booking = NoBooking
    /\ match = nullMatch
    /\ AppIdle

TallyResult(w, x) ==
    /\ calls < MaxTallyCalls
    /\ calls' = calls + 1
    /\ input' = ladder
    /\ op' = "applyLadderResultWithStats"
    /\ winnerId' = w
    /\ loserId' = x
    /\ ladder' = applyLadderResultWithStats(ladder, w, x)
    /\ argument' =
           argumentAfter(applyLadderResultWithStatsOnHeap(Loaded(ladder), 1, w, x))
    /\ counted' = IF /\ w # x
                     /\ \E i \in 1..Len(ladder) : ladder[i].id = w
                     /\ \E i \in 1..Len(ladder) : ladder[i].id = x
                  THEN counted + 1
                  ELSE counted
    /\ UNCHANGED <<challengerId, opponentId, status, buildVars,
                   projectionVars, page, cache, availability, ladderMatches>>

TallyNext == \E a \in Ids(ladder), b \in Ids(ladder) : TallyResult(a, b)

TallySpec == TallyInit /\ [][TallyNext]_vars

----------------------------------------------------------------------------
\* The availability check on its own: every requested slot against every
\* list of bookings.

\* The slots within the hours of the model, as pairs of start and end.
Slots == {<<s, e>> \in (1..MaxHour) \X (1..MaxHour) : s < e}

\* The dates a stored booking can carry: a slot, or a start that is no date.
StoredDates ==
    {<<IsoDate(slot[1]), IsoDate(slot[2])>> : slot \in Slots}
        \cup {<<InvalidDateString, IsoDate(MaxHour)>>}

\* The list of the bookings with the dates chosen; the id of a booking is
\* its place.
SlotBookingList(dates) ==
    [i \in 1..Len(dates) |-> SlotBooking(i, dates[i][1], dates[i][2])]

AvailabilityInit ==
    /\ LadderIdle
    /\ counted = 0
    /\ page = NoPage
    /\ cache = NoCache
    /\ ladderMatches = NoLadderMatches
    /\ \E slot \in Slots, k \in 0..MaxBookings :
          \E dates \in [1..k -> StoredDates] :
              availability = [called |-> FALSE,
                              startDate |-> IsoDate(slot[1]),
                              endDate |-> IsoDate(slot[2]),
                              bookings |-> SlotBookingList(dates)]

CheckAvailabilityFromBookings ==
    /\ ~availability.called
    /\ availability' =
           [called |-> TRUE,
            startDate |-> availability.startDate,
            endDate |-> availability.endDate,
            bookings |-> availability.bookings,
            result |-> checkAvailabilityFromBookings(availability.startDate,
                                                     availability.endDate,
                                                     availability.bookings)]
    /\ UNCHANGED <<ladder, input, argument, op, winnerId, loserId,
                   challengerId, opponentId, status, calls, buildVars,
                   projectionVars, counted, page, cache, ladderMatches>>

AvailabilityNext == CheckAvailabilityFromBookings

AvailabilitySpec == AvailabilityInit /\ [][AvailabilityNext]_vars

----------------------------------------------------------------------------
\* The matches of a ladder on their own: buildLadderMatches applied to lists
\* of bookings of two ladders.

\* The bookings a list is made of: of either ladder; with both players, with
\* no playerBId, with an empty playerAId; at one of two hours or with an
\* empty start.
LadderBookingChoices ==
    {"ladder-1", "ladder-2"}
        \X {<<1, 2>>, <<1, NoId>>, <<EmptyId, 2>>}
        \X {IsoDate(1), IsoDate(2), EmptyDateString}

\* The list of the bookings chosen; the id of a booking is its place.
LadderBookingList(choice) ==
    [i \in 1..Len(choice) |->
        LadderBooking(i, choice[i][1], choice[i][2][1], choice[i][2][2],
                      choice[i][3])]

LadderMatchesInit ==
    /\ LadderIdle
    /\ counted = 0
    /\ page = NoPage
    /\ cache = NoCache
    /\ availability = NoAvailability
    /\ \E ladderId \in {undefined, "ladder-1"} :
          \/ ladderMatches = [called |-> FALSE, bookings |-> NoBookingList,
                              ladderId |-> ladderId]
          \/ \E k \in 0..MaxMatchBookings :
                \E choice \in [1..k -> LadderBookingChoices] :
                    ladderMatches =
                        [called |-> FALSE,
                         bookings |-> BookingList(LadderBookingList(choice)),
                         ladderId |-> ladderId]

BuildLadderMatches ==
    /\ ~ladderMatches.called
    /\ ladderMatches' =
           [called |-> TRUE,
            bookings |-> ladderMatches.bookings,
            ladderId |-> ladderMatches.ladderId,
            result |-> buildLadderMatches(ladderMatches.bookings,
                                          ladderMatches.ladderId)]
    /\ UNCHANGED <<ladder, input, argument, op, winnerId, loserId,
                   challengerId, opponentId, status, calls, buildVars,
                   projectionVars, counted, page, cache, availability>>

LadderMatchesNext == BuildLadderMatches

LadderMatchesSpec == LadderMatchesInit /\ [][LadderMatchesNext]_vars

----------------------------------------------------------------------------
\* One mutation of the cached bookings: onMutate applies the optimistic
\* change, then the API call fails (onError) or succeeds (onSuccess), then
\* onSettled invalidates the query. `before` is what was cached when
\* onMutate began.

CacheState(data, phase, mutation, context, previous, invalidated) ==
    [mounted |-> TRUE, data |-> data, phase |-> phase, mutation |-> mutation,
     context |-> context, before |-> previous, invalidated |-> invalidated]

\* The list of stored bookings that start at the hours given.
StoredBookingList(hours) ==
    [i \in 1..Len(hours) |-> CachedBooking(StoredId(i), IsoDate(hours[i]))]

CacheInit ==
    /\ LadderIdle
    /\ counted = 0
    /\ page = NoPage
    /\ availability = NoAvailability
    /\ ladderMatches = NoLadderMatches
    /\ \/ cache = CacheState(NothingCached, "idle", "none", NothingCached,
                             NothingCached, FALSE)
       \/ \E k \in 0..MaxCached :
             \E hours \in [1..k -> 1..MaxHour] :
                 cache = CacheState(Cached(StoredBookingList(hours)), "idle",
                                    "none", NothingCached, NothingCached,
                                    FALSE)

CacheUnchanged ==
    UNCHANGED <<ladder, input, argument, op, winnerId, loserId, challengerId,
                opponentId, status, calls, buildVars, projectionVars,
                counted, page, availability, ladderMatches>>

CreateOnMutate(hour) ==
    /\ cache.phase = "idle"
    /\ cache' = CacheState(
                    createOnMutate(cache.data,
                                   CachedBooking(undefined, IsoDate(hour)), 1),
                    "pending", "create", cache.data, cache.data, FALSE)
    /\ CacheUnchanged

DeleteOnMutate(n) ==
    /\ cache.phase = "idle"
    /\ cache' = CacheState(deleteOnMutate(cache.data, StoredId(n)),
                           "pending", "delete", cache.data, cache.data, FALSE)
    /\ CacheUnchanged

OnError ==
    /\ cache.phase = "pending"
    /\ cache' = [cache EXCEPT !.data = rollBack(cache.data, cache.context),
                              !.phase = "failed"]
    /\ CacheUnchanged

CreateOnSuccess(hour) ==
    /\ cache.phase = "pending"
    /\ cache.mutation = "create"
    /\ \E b \in 1..Len(cache.data.list) :
          /\ cache.data.list[b].id.temp
          /\ cache.data.list[b].startDate = IsoDate(hour)
    /\ cache' = [cache EXCEPT
                    !.data = createOnSuccess(
                                 cache.data,
                                 CachedBooking(StoredId(MaxCached + 1),
                                               IsoDate(hour))),
                    !.phase = "succeeded"]
    /\ CacheUnchanged

DeleteOnSuccess ==
    /\ cache.phase = "pending"
    /\ cache.mutation = "delete"
    /\ cache' = [cache EXCEPT !.phase = "succeeded"]
    /\ CacheUnchanged

OnSettled ==
    /\ cache.phase \in {"failed", "succeeded"}
    /\ cache' = [cache EXCEPT !.phase = "settled", !.invalidated = TRUE]
    /\ CacheUnchanged

CacheNext ==
    \/ \E hour \in 1..MaxHour : CreateOnMutate(hour) \/ CreateOnSuccess(hour)
    \/ \E n \in 1..(MaxCached + 1) : DeleteOnMutate(n)
    \/ OnError
    \/ DeleteOnSuccess
    \/ OnSettled

CacheSpec == CacheInit /\ [][CacheNext]_vars

----------------------------------------------------------------------------
\* The ladder page. The users query delivers its data once; the session, the
\* active ladder and two planned matches are there from the start. A report
\* of a result is the call of updateLadderMatchMutation.mutate, which updates
\* the shown match at once, and later the success or the failure of the
\* update, which runs the callbacks the report passed. The callbacks are
\* closures of the render that reported: they hold that render's
\* ladderOverride, basePlayers and knownUserIds.

\* A planned match of the list the page shows.
PlannedMatch(id, players) ==
    LadderMatch(id, players[1], players[2], id, id, id + 1, "planned", NoId,
                undefined)

\* The update of one match: not reported, in flight with what the report's
\* callbacks closed over, or settled.
noReport ==
    [state |-> "idle", winnerId |-> NoId, loserId |-> NoId,
     currentLadder |-> <<>>, knownUserIds |-> {}, previousMatches |-> <<>>]

Report(w, x, currentLadder, known, previousMatches) ==
    [state |-> "pending", winnerId |-> w, loserId |-> x,
     currentLadder |-> currentLadder, knownUserIds |-> known,
     previousMatches |-> previousMatches]

Mounted(user, activeLadder, matches) ==
    [mounted |-> TRUE, isLoading |-> TRUE, users |-> NoUsers, user |-> user,
     activeLadder |-> activeLadder, ladderMatches |-> matches,
     basePlayers |-> basePlayers(TRUE, NoUsers, user, activeLadder),
     ladderOverride |-> noOverride, selectedOpponent |-> noOpponent,
     challengeMessage |-> noMessage,
     reportDrafts |-> [m \in 1..Len(matches) |-> noDraft],
     reports |-> [m \in 1..Len(matches) |-> noReport],
     statsSent |-> <<>>, handler |-> "mount"]

\* The ladder a page state shows.
LadderShown(p) == ladderShown(p.basePlayers, p.ladderOverride)

\* The user records the query can deliver.
StoredUsers == [i \in 1..MaxUsers |-> StoredUser(i)]
UsersData == {NoUsers, UserList(StoredUsers)}

\* The session users of a page.
SessionUsers == {NoSession, ListedSessionUser, OutsideSessionUser}

\* No active ladder, a ladder nobody has joined, a ladder of two users, and
\* one that every user and every mocked user has joined.
ActiveLadders ==
    {NoParticipants, Participants({}), Participants({1, 2}),
     Participants((1..(MaxUsers + 1)) \cup
                  {mockedUsers[i].uid : i \in 1..Len(mockedUsers)})}

\* The players of the planned matches: two users and two mocked users, two
\* matches with a player in common, the same two players twice.
PlannedPairs ==
    { << <<1, 2>>, <<MockUserId(3), MockUserId(4)>> >>,
      << <<MockUserId(1), 2>>, <<1, 2>> >>,
      << <<MockUserId(2), MockUserId(1)>>, <<MockUserId(1), MockUserId(2)>> >> }

PageIdle ==
    /\ LadderIdle
    /\ counted = 0
    /\ cache = NoCache
    /\ availability = NoAvailability
    /\ ladderMatches = NoLadderMatches

PageUnchanged ==
    UNCHANGED <<ladder, input, argument, op, winnerId, loserId, challengerId,
                opponentId, status, calls, buildVars, projectionVars,
                counted, cache, availability, ladderMatches>>

\* A page with one planned match, for every session and active ladder.
ChallengeInit ==
    /\ PageIdle
    /\ \E user \in SessionUsers, activeLadder \in ActiveLadders :
          page = Mounted(user, activeLadder,
                         <<PlannedMatch(1, <<MockUserId(1), 2>>)>>)

\* A page with two planned matches.
ReportInit ==
    /\ PageIdle
    /\ \E activeLadder \in {NoParticipants, Participants({1, 2})} :
          \E pairs \in PlannedPairs :
              page = Mounted(NoSession, activeLadder,
                             <<PlannedMatch(1, pairs[1]),
                               PlannedMatch(2, pairs[2])>>)

\* useUsersQuery settles, with the user records or without data; the memos
\* that depend on it are computed anew.
UsersLoaded(data) ==
    /\ page.mounted
    /\ page.isLoading
    /\ page' = [page EXCEPT
                   !.isLoading = FALSE,
                   !.users = data,
                   !.basePlayers = basePlayers(FALSE, data, page.user,
                                               page.activeLadder),
                   !.handler = "useUsersQuery"]
    /\ PageUnchanged

\* A row of the ladder table is clicked.
SelectOpponent(row) ==
    /\ page.mounted
    /\ ~page.isLoading
    /\ row \in 1..Len(LadderShown(page))
    /\ LET shown == LadderShown(page)
           selection == handleSelectOpponent(page.user, page.activeLadder,
                                             shown, shown[row])
       IN page' = [page EXCEPT
                      !.challengeMessage = selection.challengeMessage,
                      !.selectedOpponent = selection.selectedOpponent,
                      !.handler = "handleSelectOpponent"]
    /\ PageUnchanged

\* handleBookingSuccess, called when the booking of the challenge is made.
BookingSuccess ==
    /\ page.mounted
    /\ ~page.isLoading
    /\ ~page.selectedOpponent.isNull
    /\ ~page.user.isNull
    /\ page' = [page EXCEPT !.selectedOpponent = noOpponent,
                            !.challengeMessage = noMessage,
                            !.handler = "handleBookingSuccess"]
    /\ PageUnchanged

\* The report form of match m is on the page: the match is shown as planned,
\* and its update is neither in flight nor done (the list is fetched again
\* when an update has settled).
FormShown(m) ==
    /\ page.mounted
    /\ ~page.isLoading
    /\ m \in 1..Len(page.ladderMatches)
    /\ page.ladderMatches[m].status # "completed"
    /\ page.reports[m].state \in {"idle", "failed"}

\* handleReportWinnerChange: { ...current[matchId], winnerId }
ReportWinnerChange(m, w) ==
    /\ FormShown(m)
    /\ w \in {page.ladderMatches[m].playerAId, page.ladderMatches[m].playerBId}
    /\ page' = [page EXCEPT
                   !.reportDrafts[m] =
                       ReportDraft(w, page.reportDrafts[m].comment),
                   !.handler = "handleReportWinnerChange"]
    /\ PageUnchanged

\* handleReportCommentChange: { ...current[matchId], comment }
ReportCommentChange(m, comment) ==
    /\ FormShown(m)
    /\ page' = [page EXCEPT
                   !.reportDrafts[m] =
                       ReportDraft(page.reportDrafts[m].winnerId, comment),
                   !.handler = "handleReportCommentChange"]
    /\ PageUnchanged

\* updateLadderMatchList of the mutation's onMutate
updateLadderMatchList(matches, bookingId, matchStatus, winner, comment) ==
    [k \in 1..Len(matches) |->
        IF matches[k].id = bookingId \/ matches[k].bookingId = bookingId
        THEN LadderMatch(matches[k].id, matches[k].playerAId,
                         matches[k].playerBId, matches[k].bookingId,
                         matches[k].bookingStart, matches[k].bookingEnd,
                         matchStatus, winner, comment)
        ELSE matches[k]]

\* handleReportResult: without a winner it only warns; with one it starts
\* the update of the match.
ReportResult(m) ==
    /\ FormShown(m)
    /\ LET draft == page.reportDrafts[m]
           reported == page.ladderMatches[m]
           w == draft.winnerId
           x == IF w = reported.playerAId
                THEN reported.playerBId ELSE reported.playerAId
           comment == IF draft.comment = "" THEN undefined ELSE draft.comment
           currentLadder == IF page.ladderOverride.isNull
                            THEN page.basePlayers
                            ELSE page.ladderOverride.value
       IN IF ~draft.present \/ falsy(draft.winnerId)
          THEN page' = [page EXCEPT !.handler = "handleReportResult"]
          ELSE page' = [page EXCEPT
                           !.reports[m] =
                               Report(w, x, currentLadder,
                                      knownUserIds(page.users),
                                      page.ladderMatches),
                           !.ladderMatches =
                               updateLadderMatchList(page.ladderMatches,
                                                     reported.bookingId,
                                                     "completed", w, comment),
                           !.handler = "handleReportResult"]
    /\ PageUnchanged

\* The onSuccess callback of a report. reportDrafts without the match's draft
\* is reportDrafts with noDraft for it.
onSuccess(p, m) ==
    LET report == p.reports[m]
        updatedLadder == applyLadderResultWithStats(report.currentLadder,
                                                    report.winnerId,
                                                    report.loserId)
        statUpdates == buildStatsUpdates(updatedLadder,
                                         <<report.winnerId, report.loserId>>,
                                         report.knownUserIds)
    IN [p EXCEPT !.ladderOverride = Override(updatedLadder),
                 !.reportDrafts[m] = noDraft,
                 !.statsSent = IF Len(statUpdates) > 0
                               THEN Append(p.statsSent, statUpdates)
                               ELSE p.statsSent,
                 !.reports[m].state = "succeeded",
                 !.handler = "onSuccess"]

\* The update of match m succeeds.
UpdateSucceeds(m) ==
    /\ page.mounted
    /\ m \in 1..Len(page.reports)
    /\ page.reports[m].state = "pending"
    /\ page' = onSuccess(page, m)
    /\ PageUnchanged

\* The update of match m fails: the mutation puts back the matches it had
\* saved, the report's onError warns.
UpdateFails(m) ==
    /\ page.mounted
    /\ m \in 1..Len(page.reports)
    /\ page.reports[m].state = "pending"
    /\ page' = [page EXCEPT
                   !.ladderMatches = page.reports[m].previousMatches,
                   !.reports[m].state = "failed",
                   !.handler = "onError"]
    /\ PageUnchanged

\* The page used for reporting results only.
ReportNext ==
    \/ \E data \in UsersData : UsersLoaded(data)
    \/ \E m \in 1..2 :
          \/ \E w \in {1, 2} \cup {MockUserId(i) : i \in 1..4} :
                ReportWinnerChange(m, w)
          \/ ReportCommentChange(m, "bra match")
          \/ ReportResult(m)
          \/ UpdateSucceeds(m)
          \/ UpdateFails(m)

PageNext ==
    \/ ReportNext
    \/ \E row \in 1..(Len(mockedUsers) + MaxUsers + 1) : SelectOpponent(row)
    \/ BookingSuccess

ChallengeSpec == ChallengeInit /\ [][PageNext]_vars

ReportSpec == ReportInit /\ [][ReportNext]_vars

----------------------------------------------------------------------------
\* The projection on its own: bookingToLadderMatch applied to every record.

ProjectionInit ==
    /\ NothingCalled
    /\ AppIdle
    /\ users = NoUsers
    /\ currentUser = NoSession
    /\ participantIds = NoParticipants
    /\ booking \in BookingRecords
    /\ match = nullMatch

BookingToLadderMatch ==
    /\ op = "init"
    /\ op' = "bookingToLadderMatch"
    /\ match' = bookingToLadderMatch(booking)
    /\ UNCHANGED <<ladder, input, argument, winnerId, loserId, challengerId,
                   opponentId, status, calls, buildVars, booking, appVars>>

ProjectionNext == BookingToLadderMatch

ProjectionSpec == ProjectionInit /\ [][ProjectionNext]_vars

----------------------------------------------------------------------------
\* Vocabulary of the properties (independent of findIndex)

IdsOf(l) == {l[i].id : i \in 1..Len(l)}

\* The 1-based position of a present id in a ladder with unique ids.
PositionOf(l, id) == CHOOSE i \in 1..Len(l) : l[i].id = id

\* The record of a present id.
PlayerOf(l, id) == l[PositionOf(l, id)]

UniqueIds(l) == \A i, j \in 1..Len(l) : l[i].id = l[j].id => i = j

IdSequence(l) == [i \in 1..Len(l) |-> l[i].id]

\* The ladder without one player, order kept.
Without(l, id) ==
    LET Keep(p) == p.id # id
    IN SelectSeq(l, Keep)

TypeOK ==
    /\ UniqueIds(ladder)
    /\ UniqueIds(input)
    /\ calls \in 0..MaxCalls
    /\ op \in {"init", "applyLadderResult", "updatePlayerStats",
               "applyLadderResultWithStats", "getChallengeStatus"}

----------------------------------------------------------------------------
\* What a call was given

\* Both ids are players of the ladder passed in and differ.
DistinctPresent(l, a, b) == a # b /\ a \in IdsOf(l) /\ b \in IdsOf(l)

\* The degenerate inputs: the same id twice, or an id that is no player.
Degenerate(l, a, b) == a = b \/ a \notin IdsOf(l) \/ b \notin IdsOf(l)

\* The ladder passed in ranks a below b (a's index is the greater one).
RankedBelow(l, a, b) ==
    DistinctPresent(l, a, b) /\ PositionOf(l, a) > PositionOf(l, b)

\* Counters of player id after the call against those before it.
WinsUp(id, k) == PlayerOf(ladder, id).wins = PlayerOf(input, id).wins + k
LossesUp(id, k) == PlayerOf(ladder, id).losses = PlayerOf(input, id).losses + k

\* The call counted one result: a win for the winner, a loss for the loser,
\* nothing else.
ResultCountedOnce ==
    /\ IdsOf(ladder) = IdsOf(input)
    /\ UniqueIds(ladder)
    /\ \A id \in IdsOf(input) :
          /\ WinsUp(id, IF id = winnerId THEN 1 ELSE 0)
          /\ LossesUp(id, IF id = loserId THEN 1 ELSE 0)
          /\ PlayerOf(ladder, id).name = PlayerOf(input, id).name

----------------------------------------------------------------------------
\* Properties

\* C1: getChallengeStatus is eligible only if the challenger's index is
\* strictly greater than the opponent's and the difference is between 1 and
\* 4; and every pair of distinct ids of the ladder whose index difference is
\* 1..4 is eligible.
C1_EligibleIffWithinFourAbove ==
    op = "getChallengeStatus" =>
        (status.eligible <=>
            /\ DistinctPresent(input, challengerId, opponentId)
            /\ PositionOf(input, challengerId) - PositionOf(input, opponentId)
                   \in 1..4)

\* A challenge at the far edge of the window was granted.
C1_Witness ==
    /\ op = "getChallengeStatus"
    /\ status.eligible
    /\ Len(input) = MaxPlayers
    /\ PositionOf(input, challengerId) - PositionOf(input, opponentId) = 4

\* C2: applyLadderResult with the winner ranked below the loser returns a
\* ladder in which the winner occupies the loser's former index and which is
\* a permutation of the input: same length, same ids, every record unchanged.
C2_PromotionIsPermutation ==
    (op = "applyLadderResult" /\ RankedBelow(input, winnerId, loserId)) =>
        /\ Len(ladder) = Len(input)
        /\ ladder[PositionOf(input, loserId)].id = winnerId
        /\ IdsOf(ladder) = IdsOf(input)
        /\ \A id \in IdsOf(input) : PlayerOf(ladder, id) = PlayerOf(input, id)

\* A winner with stored results was promoted over more than one place.
C2_Witness ==
    /\ op = "applyLadderResult"
    /\ RankedBelow(input, winnerId, loserId)
    /\ PositionOf(input, winnerId) - PositionOf(input, loserId) > 1
    /\ PlayerOf(input, winnerId).wins > 0
    /\ ladder # input

\* C3: a promotion is a single-element move: the loser and every player
\* between the two former positions go down by exactly one index, players
\* above the loser's and below the winner's former index keep theirs, and
\* the order of all players other than the winner is preserved.
C3_PromotionIsSingleMove ==
    (op = "applyLadderResult" /\ RankedBelow(input, winnerId, loserId)) =>
        LET from == PositionOf(input, winnerId)
            to == PositionOf(input, loserId)
        IN /\ Len(ladder) = Len(input)
           /\ \A k \in 1..Len(input) :
                 /\ k < to => ladder[k] = input[k]
                 /\ k > from => ladder[k] = input[k]
                 /\ (to <= k /\ k < from) => ladder[k + 1] = input[k]
           /\ Without(ladder, winnerId) = Without(input, winnerId)

\* A promotion passed a player standing between loser and winner, with
\* players above the loser and below the winner.
C3_Witness ==
    /\ op = "applyLadderResult"
    /\ RankedBelow(input, winnerId, loserId)
    /\ PositionOf(input, loserId) > 1
    /\ PositionOf(input, winnerId) < Len(input)
    /\ PositionOf(input, winnerId) - PositionOf(input, loserId) >= 2
    /\ PositionOf(ladder, loserId) = PositionOf(input, loserId) + 1

\* C4: applyLadderResult returns a ladder equal to the input whenever the
\* winner's index is already less than the loser's.
C4_NoOpWhenAlreadyAbove ==
    (op = "applyLadderResult" /\ RankedBelow(input, loserId, winnerId)) =>
        ladder = input

\* The higher-ranked player won and the ladder came back as it was.
C4_Witness ==
    /\ op = "applyLadderResult"
    /\ RankedBelow(input, loserId, winnerId)
    /\ Len(input) >= 3
    /\ ladder = input

\* C5: after applyLadderResultWithStats with distinct ids both in the
\* ladder, the winner's wins and the loser's losses are exactly 1 higher and
\* every other counter is unchanged, whether or not the order changed.
C5_StatsCountedOnce ==
    (op = "applyLadderResultWithStats"
        /\ DistinctPresent(input, winnerId, loserId)) => ResultCountedOnce

\* The higher-ranked player won: counters moved, the order did not.
C5_Witness ==
    /\ op = "applyLadderResultWithStats"
    /\ RankedBelow(input, loserId, winnerId)
    /\ IdSequence(ladder) = IdSequence(input)
    /\ WinsUp(winnerId, 1)
    /\ LossesUp(loserId, 1)
    /\ PlayerOf(input, winnerId).wins > 0

\* C6: for distinct winner and loser both present,
\* applyLadderResultWithStats(l, w, x) equals
\* applyLadderResult(updatePlayerStats(l, w, x), w, x).
C6_WithStatsIsStatsThenReorder ==
    (op = "applyLadderResultWithStats"
        /\ DistinctPresent(input, winnerId, loserId)) =>
        ladder = applyLadderResult(
                     updatePlayerStats(input, winnerId, loserId),
                     winnerId, loserId)

\* A lower-ranked winner: both the counters and the order changed.
C6_Witness ==
    /\ op = "applyLadderResultWithStats"
    /\ RankedBelow(input, winnerId, loserId)
    /\ PositionOf(input, winnerId) - PositionOf(input, loserId) >= 2
    /\ IdSequence(ladder) # IdSequence(input)
    /\ WinsUp(winnerId, 1)

\* C7: applyLadderResult and applyLadderResultWithStats called with winner
\* equal to loser, or with either id absent from the ladder (an empty ladder
\* included), return a ladder equal to the input.
C7_DegenerateResultIsNoOp ==
    (op \in {"applyLadderResult", "applyLadderResultWithStats"}
        /\ Degenerate(input, winnerId, loserId)) => ladder = input

\* A present winner against an unknown loser, on a ladder of three or more.
C7_Witness ==
    /\ op \in {"applyLadderResult", "applyLadderResultWithStats"}
    /\ winnerId \in IdsOf(input)
    /\ loserId \notin IdsOf(input)
    /\ Len(input) >= 3
    /\ ladder = input

\* C8: updatePlayerStats called with winner equal to loser, or with either
\* the winner id or the loser id absent from the ladder (the other one
\* present), returns a ladder equal to the input.
C8_DegenerateStatsIsNoOp ==
    (op = "updatePlayerStats" /\ Degenerate(input, winnerId, loserId)) =>
        ladder = input

\* C9: updatePlayerStats with distinct ids both present returns a ladder with
\* the same sequence of ids as the input, in which the winner's wins and the
\* loser's losses are each 1 higher and all other counters are unchanged.
C9_StatsOnlyKeepsOrder ==
    (op = "updatePlayerStats" /\ DistinctPresent(input, winnerId, loserId)) =>
        /\ IdSequence(ladder) = IdSequence(input)
        /\ ResultCountedOnce

\* A lower-ranked winner got the win and stayed below the loser.
C9_Witness ==
    /\ op = "updatePlayerStats"
    /\ RankedBelow(input, winnerId, loserId)
    /\ RankedBelow(ladder, winnerId, loserId)
    /\ WinsUp(winnerId, 1)
    /\ LossesUp(loserId, 1)

\* C10: if challengerId and opponentId differ and at least one of them is
\* absent from the ladder, getChallengeStatus returns eligible false with
\* reason "missing", for every ladder including the empty one; never
\* "lower-ranked" or "too-far".
C10_MissingBeforeDistance ==
    (op = "getChallengeStatus"
        /\ challengerId # opponentId
        /\ (challengerId \notin IdsOf(input)
               \/ opponentId \notin IdsOf(input))) =>
        status = ChallengeStatus(FALSE, "missing")

\* An unknown challenger against a player of the ladder was turned away as
\* missing.
C10_Witness ==
    /\ op = "getChallengeStatus"
    /\ challengerId \notin IdsOf(input)
    /\ opponentId \in IdsOf(input)
    /\ status.reason = "missing"


\* C11: getChallengeStatus(ladder, x, x) returns eligible false with reason
\* "self" for any id x and any ladder, also an empty one and one that does
\* not contain x: the self check is decided before the missing check.
C11_SelfBeforeMissing ==
    (op = "getChallengeStatus" /\ challengerId = opponentId) =>
        status = ChallengeStatus(FALSE, "self")

\* A player no ladder contains challenged themselves and was told "self".
C11_Witness ==
    /\ op = "getChallengeStatus"
    /\ challengerId = opponentId
    /\ challengerId \notin IdsOf(input)
    /\ Len(input) >= 1
    /\ status.reason = "self"

\* C12: for distinct ids both present, the reason is "lower-ranked" exactly
\* when the challenger's index is smaller than the opponent's and "too-far"
\* exactly when challenger index minus opponent index is 5 or more (exactly 4
\* is eligible); the result carries a reason if and only if it is not
\* eligible.
C12_DistanceReasons ==
    (op = "getChallengeStatus"
        /\ DistinctPresent(input, challengerId, opponentId)) =>
        LET difference == PositionOf(input, challengerId)
                              - PositionOf(input, opponentId)
        IN /\ status.reason = "lower-ranked" <=> difference < 0
           /\ status.reason = "too-far" <=> difference >= 5
           /\ difference = 4 => status.eligible
           /\ status.reason # NoReason <=> ~status.eligible

\* The bottom player of a full ladder challenged the top player: five
\* places, too far.
C12_Witness ==
    /\ op = "getChallengeStatus"
    /\ DistinctPresent(input, challengerId, opponentId)
    /\ PositionOf(input, challengerId) - PositionOf(input, opponentId) = 5
    /\ status = ChallengeStatus(FALSE, "too-far")


----------------------------------------------------------------------------
\* Sequences of result calls on a built ladder

ResultOps == {"applyLadderResult", "updatePlayerStats",
              "applyLadderResultWithStats"}

\* The ladder the sequence started from.
StartingLadder == buildLadderPlayers(users, currentUser, participantIds)

\* Counter c of player id is in ladder `later` at least what it is in
\* ladder `earlier`, and at most `most` above it.
RaisedWithin(earlier, later, id, most) ==
    /\ PlayerOf(later, id).wins - PlayerOf(earlier, id).wins \in 0..most
    /\ PlayerOf(later, id).losses - PlayerOf(earlier, id).losses \in 0..most

\* C13: in a sequence of applyLadderResult, updatePlayerStats and
\* applyLadderResultWithStats calls, each on the ladder the previous call
\* returned, no player's wins or losses is lower than in an earlier ladder
\* (the one the call was given, and the one the sequence started from), and
\* one call raises a counter by at most 1.
C13_CountersNeverDecrease ==
    op \in ResultOps =>
        /\ \A id \in IdsOf(input) : RaisedWithin(input, ladder, id, 1)
        /\ \A id \in IdsOf(StartingLadder) :
              RaisedWithin(StartingLadder, ladder, id, calls)

\* A second call has raised a counter for the second time.
C13_Witness ==
    /\ op \in ResultOps
    /\ calls = 2
    /\ \E id \in IdsOf(ladder) :
          /\ PlayerOf(ladder, id).wins = PlayerOf(input, id).wins + 1
          /\ PlayerOf(ladder, id).wins = PlayerOf(StartingLadder, id).wins + 2

\* C14: from the ladder buildLadderPlayers returns for users with unique
\* ids, after any sequence of result calls the ladder has each id at most
\* once, and the same set of ids and the same length as the starting ladder.
C14_IdsPreserved ==
    op # "init" =>
        /\ UniqueIds(ladder)
        /\ IdsOf(ladder) = IdsOf(StartingLadder)
        /\ Len(ladder) = Len(StartingLadder)

\* Two calls have reordered a ladder that has the session user appended.
C14_Witness ==
    /\ op \in ResultOps
    /\ calls = 2
    /\ ~currentUser.isNull
    /\ currentUser.uid \notin {users.list[i].uid : i \in 1..Len(users.list)}
    /\ Len(ladder) = Len(users.list) + 1
    /\ IdSequence(ladder) # IdSequence(StartingLadder)
    /\ IdSequence(ladder) # IdSequence(input)


----------------------------------------------------------------------------
\* The registry buildLadderPlayers returns

Built == op = "buildLadderPlayers"

\* users is a non-empty list.
RealUsers == users.defined /\ Len(users.list) > 0

\* participantIds is a non-empty list.
FilterActive == participantIds.defined /\ participantIds.ids # {}

UidsOf(list) == {list[i].uid : i \in 1..Len(list)}

\* The ladder's entries but the last `n`, as a set.
AllButLast(l, n) == {l[k] : k \in 1..(Len(l) - n)}

\* The last entry of ladder l is the session user with no results.
SessionUserLast(l) ==
    /\ Len(l) > 0
    /\ l[Len(l)].id = currentUser.uid
    /\ l[Len(l)].wins = 0
    /\ l[Len(l)].losses = 0

\* C15: with a non-empty participantIds every player buildLadderPlayers
\* returns has an id in participantIds; users outside the list are dropped
\* and a session user outside it is not in the result, listed in users or
\* not.
C15_OnlyParticipants ==
    (Built /\ FilterActive) =>
        /\ \A k \in 1..Len(ladder) : ladder[k].id \in participantIds.ids
        /\ (~currentUser.isNull /\ currentUser.uid \notin participantIds.ids)
              => currentUser.uid \notin IdsOf(ladder)

\* A user and the session user are outside the list, another user is kept.
C15_Witness ==
    /\ Built
    /\ FilterActive
    /\ RealUsers
    /\ UidsOf(users.list) \ participantIds.ids # {}
    /\ ~currentUser.isNull
    /\ currentUser.uid \notin participantIds.ids
    /\ currentUser.uid \notin UidsOf(users.list)
    /\ Len(ladder) > 0
    /\ Len(ladder) < Len(users.list)

\* C16: with participantIds absent or empty and a non-empty users list,
\* every user is in the result exactly once; a session user who is not
\* among them is appended last with 0 wins and 0 losses, and one who is
\* among them is not added again.
C16_NoFilterKeepsEveryUser ==
    (Built /\ ~FilterActive /\ RealUsers) =>
        /\ \A i \in 1..Len(users.list) :
              Cardinality({k \in 1..Len(ladder) :
                              ladder[k].id = users.list[i].uid}) = 1
        /\ IF ~currentUser.isNull /\ currentUser.uid \notin UidsOf(users.list)
           THEN /\ Len(ladder) = Len(users.list) + 1
                /\ SessionUserLast(ladder)
           ELSE Len(ladder) = Len(users.list)

\* An empty participant list, and a session user appended after the users.
C16_Witness ==
    /\ Built
    /\ RealUsers
    /\ participantIds.defined
    /\ participantIds.ids = {}
    /\ Len(users.list) = MaxUsers
    /\ Len(ladder) = Len(users.list) + 1
    /\ SessionUserLast(ladder)


\* The placeholder players the participant filter lets through.
RosterKept ==
    {mockLadderPlayers[k] : k \in
        {j \in 1..Len(mockLadderPlayers) :
            FilterActive => mockLadderPlayers[j].id \in participantIds.ids}}

\* The session user is to be appended to a list with the ids `present`.
SessionUserDue(present) ==
    /\ ~currentUser.isNull
    /\ currentUser.uid \notin present
    /\ FilterActive => currentUser.uid \in participantIds.ids

\* C17: with users absent or empty, the ladder is built from the fixed
\* roster of eight placeholder players, each with 0 wins and 0 losses; the
\* participant filter keeps the placeholders whose id it lists, and the
\* session user is appended last under the conditions that hold for real
\* users.
C17_PlaceholderRoster ==
    (Built /\ ~RealUsers) =>
        LET due == SessionUserDue({p.id : p \in RosterKept})
            extra == IF due THEN 1 ELSE 0
        IN /\ Len(mockLadderPlayers) = 8
           /\ \A k \in 1..Len(mockLadderPlayers) :
                 /\ mockLadderPlayers[k].wins = 0
                 /\ mockLadderPlayers[k].losses = 0
           /\ Len(ladder) = Cardinality(RosterKept) + extra
           /\ AllButLast(ladder, extra) = RosterKept
           /\ due => SessionUserLast(ladder)

\* An empty users list: the whole roster, with the session user after it.
C17_Witness ==
    /\ Built
    /\ users.defined
    /\ Len(users.list) = 0
    /\ ~FilterActive
    /\ Len(ladder) = Len(mockLadderPlayers) + 1
    /\ SessionUserLast(ladder)
    /\ \A k \in 1..Len(mockLadderPlayers) : MockId(k) \in IdsOf(ladder)

\* A counter as stored on a user record, or 0 if it is no number.
StoredCounter(v) == IF v.type = "number" THEN v.value ELSE 0

\* C18: every player buildLadderPlayers derives from a user record has that
\* user's stored ladderWins and ladderLosses as wins and losses, 0 standing
\* for a counter that is absent or not a number, with a participant filter
\* as without one.
C18_StoredStats ==
    (Built /\ RealUsers) =>
        \A k \in 1..Len(ladder), i \in 1..Len(users.list) :
            users.list[i].uid = ladder[k].id =>
                /\ ladder[k].wins = StoredCounter(users.list[i].ladderWins)
                /\ ladder[k].losses = StoredCounter(users.list[i].ladderLosses)

\* A filtered ladder keeps a user with stored results and one whose counters
\* are absent and not a number.
C18_Witness ==
    /\ Built
    /\ RealUsers
    /\ FilterActive
    /\ Len(ladder) < Len(users.list)
    /\ \E k \in 1..Len(ladder), i \in 1..Len(users.list) :
          /\ users.list[i].uid = ladder[k].id
          /\ users.list[i].ladderWins = JsNumber(5)
          /\ ladder[k].wins = 5
          /\ ladder[k].losses = 2
    /\ \E k \in 1..Len(ladder), i \in 1..Len(users.list) :
          /\ users.list[i].uid = ladder[k].id
          /\ users.list[i].ladderWins = JsUndefined
          /\ users.list[i].ladderLosses = JsString(2)
          /\ ladder[k].wins = 0
          /\ ladder[k].losses = 0


----------------------------------------------------------------------------
\* The projection of a booking record

Projected == op = "bookingToLadderMatch"

\* The record has no such field.
Absent(id) == id = NoId

\* The record has the field and it names a player.
NamesPlayer(id) == id # NoId /\ id # EmptyId

\* A match without a ladderStatus on the record is "planned".
PlannedByDefault ==
    (~match.isNull /\ booking.ladderStatus = undefined)
        => match.status = "planned"

\* C19 as stated: null exactly for the records that lack playerAId or
\* playerBId.
C19_NullIffAbsent ==
    Projected =>
        /\ match.isNull <=>
              (Absent(booking.playerAId) \/ Absent(booking.playerBId))
        /\ PlannedByDefault

\* C19: bookingToLadderMatch returns null if and only if at least one of
\* playerAId and playerBId is absent from the record or is the empty
\* string; for every other record it returns a match, whose status is
\* "planned" when the record has no ladderStatus.
C19_NullIffAbsentOrEmpty ==
    Projected =>
        /\ match.isNull <=>
              ~(NamesPlayer(booking.playerAId) /\ NamesPlayer(booking.playerBId))
        /\ PlannedByDefault

\* A record whose playerAId is the empty string and whose playerBId names a
\* player gives null.
C19_Witness ==
    /\ Projected
    /\ booking.playerAId = EmptyId
    /\ NamesPlayer(booking.playerBId)
    /\ match.isNull

\* C20: for a record with both player ids the match has id and bookingId
\* equal to the record's id, bookingStart and bookingEnd equal to its start
\* and end, playerAId, playerBId, winnerId and comment equal to the
\* record's, and the record's ladderStatus as status when it has one.
C20_FieldsCopied ==
    (/\ Projected
     /\ NamesPlayer(booking.playerAId)
     /\ NamesPlayer(booking.playerBId)) =>
        /\ ~match.isNull
        /\ match.id = booking.id
        /\ match.bookingId = booking.id
        /\ match.bookingStart = booking.startDate
        /\ match.bookingEnd = booking.endDate
        /\ match.playerAId = booking.playerAId
        /\ match.playerBId = booking.playerBId
        /\ match.winnerId = booking.winnerId
        /\ match.comment = booking.comment
        /\ booking.ladderStatus # undefined
              => match.status = booking.ladderStatus

\* A completed match with a winner and a comment.
C20_Witness ==
    /\ Projected
    /\ booking.ladderStatus = "completed"
    /\ booking.winnerId = booking.playerBId
    /\ booking.comment = "bra match"
    /\ ~match.isNull
    /\ match.status = "completed"
    /\ match.winnerId = match.playerBId
    /\ match.bookingStart # match.bookingEnd


----------------------------------------------------------------------------
\* The argument of a call after the call

\* The array a call returns, computed on the heap, for the call the state
\* records.
ReturnedOnHeap ==
    LET h == Loaded(input)
    IN IF op = "applyLadderResult"
       THEN returnedBy(applyLadderResultOnHeap(h, 1, winnerId, loserId))
       ELSE IF op = "updatePlayerStats"
            THEN returnedBy(updatePlayerStatsOnHeap(h, 1, winnerId, loserId))
            ELSE returnedBy(
                     applyLadderResultWithStatsOnHeap(h, 1, winnerId, loserId))

\* The heap form of each function returns what its value form returns.
HeapFormAgrees == op \in ResultOps => ReturnedOnHeap = ladder

\* C21: none of applyLadderResult, updatePlayerStats and
\* applyLadderResultWithStats changes the ladder passed in: after the call
\* the argument array has the order and the player records (wins and losses
\* included) it had before, also when the returned ladder differs from it.
C21_ArgumentUntouched ==
    op \in ResultOps => argument = input

\* A call returned a ladder with another order and other counters than the
\* one it was given.
C21_Witness ==
    /\ op \in ResultOps
    /\ argument = input
    /\ IdSequence(ladder) # IdSequence(input)
    /\ \E id \in IdsOf(input) : PlayerOf(ladder, id).wins # PlayerOf(input, id).wins
    /\ ReturnedOnHeap = ladder


----------------------------------------------------------------------------
\* Challenges and the results that follow them

\* How many places player id stands lower in ladder `later` than in ladder
\* `earlier` (negative: higher).
PlacesDown(earlier, later, id) == PositionOf(later, id) - PositionOf(earlier, id)

\* C28: when getChallengeStatus(ladder, c, o) is eligible and c wins,
\* applyLadderResultWithStats(ladder, c, o) moves c up by the former index
\* difference (1 to 4 places), moves o down by 1 and no other player by more
\* than 1; when o wins, no index changes.
C28_ChallengeOutcome ==
    op = "applyLadderResultWithStats" =>
        /\ getChallengeStatus(input, winnerId, loserId).eligible =>
              LET difference == PositionOf(input, winnerId)
                                    - PositionOf(input, loserId)
              IN /\ difference \in 1..4
                 /\ PlacesDown(input, ladder, winnerId) = -difference
                 /\ PlacesDown(input, ladder, loserId) = 1
                 /\ \A id \in IdsOf(input) \ {winnerId, loserId} :
                       PlacesDown(input, ladder, id) \in {-1, 0, 1}
        /\ getChallengeStatus(input, loserId, winnerId).eligible =>
              IdSequence(ladder) = IdSequence(input)

\* A challenger four places below the opponent has won: three players in
\* between have moved down by one, the one below the challenger has not
\* moved.
C28_Witness ==
    /\ op = "applyLadderResultWithStats"
    /\ getChallengeStatus(input, winnerId, loserId).eligible
    /\ Len(input) = 6
    /\ PlacesDown(input, ladder, winnerId) = -4
    /\ PositionOf(ladder, winnerId) = 2
    /\ Cardinality({id \in IdsOf(input) : PlacesDown(input, ladder, id) = 1}) = 4
    /\ Cardinality({id \in IdsOf(input) : PlacesDown(input, ladder, id) = 0}) = 1

\* The opponents for whom the challenge of player c is eligible.
EligibleOpponents(l, c) ==
    {o \in IdsOf(l) : getChallengeStatus(l, c, o).eligible}

Min(a, b) == IF a < b THEN a ELSE b

\* C29: in a ladder with unique ids the player at index i has exactly
\* min(i, 4) opponents for whom getChallengeStatus is eligible: none for the
\* top-ranked player, and for every other player at least the one directly
\* above.
C29_EligibleOpponentCount ==
    (op = "getChallengeStatus" /\ challengerId \in IdsOf(input)) =>
        LET index == PositionOf(input, challengerId) - 1
        IN /\ Cardinality(EligibleOpponents(input, challengerId))
                  = Min(index, 4)
           /\ index = 0 => EligibleOpponents(input, challengerId) = {}
           /\ index > 0 =>
                 input[index].id \in EligibleOpponents(input, challengerId)
           /\ status.eligible =>
                 opponentId \in EligibleOpponents(input, challengerId)

\* The player at index 5 challenges the one four places above: one of
\* exactly four eligible opponents, the top-ranked player not among them.
C29_Witness ==
    /\ op = "getChallengeStatus"
    /\ Len(input) = 6
    /\ challengerId = input[6].id
    /\ opponentId = input[2].id
    /\ status.eligible
    /\ Cardinality(EligibleOpponents(input, challengerId)) = 4
    /\ input[1].id \notin EligibleOpponents(input, challengerId)


----------------------------------------------------------------------------
\* The tally of a season

RECURSIVE SumOfWins(_)
SumOfWins(l) == IF l = <<>> THEN 0 ELSE Head(l).wins + SumOfWins(Tail(l))

RECURSIVE SumOfLosses(_)
SumOfLosses(l) == IF l = <<>> THEN 0 ELSE Head(l).losses + SumOfLosses(Tail(l))

\* C30: from a ladder with unique ids in which every player has 0 wins and
\* 0 losses, after any sequence of applyLadderResultWithStats calls the sum
\* of the wins equals the sum of the losses and the number of calls whose
\* winner and loser were distinct players of the ladder.
C30_WinsEqualLossesEqualResults ==
    /\ SumOfWins(ladder) = counted
    /\ SumOfLosses(ladder) = counted

\* Three calls, one of them with an id that is no player: two results.
C30_Witness ==
    /\ calls = 3
    /\ counted = 2
    /\ Len(ladder) = 3
    /\ SumOfWins(ladder) = 2
    /\ \E i \in 1..Len(ladder) : ladder[i].wins = 1 /\ ladder[i].losses = 1


----------------------------------------------------------------------------
\* Availability

\* Booking b overlaps the requested slot: it starts before the slot ends and
\* ends after the slot starts.
Overlaps(b) ==
    /\ b.startDate.kind = "iso"
    /\ b.endDate.kind = "iso"
    /\ b.startDate.hour < availability.endDate.hour
    /\ b.endDate.hour > availability.startDate.hour

\* Booking b starts when the requested slot ends or ends when it starts.
Touches(b) ==
    \/ b.startDate.kind = "iso"
          /\ b.startDate.hour = availability.endDate.hour
    \/ b.endDate.kind = "iso"
          /\ b.endDate.hour = availability.startDate.hour

\* C23: checkAvailabilityFromBookings returns as conflictingBookings exactly
\* the bookings that start before the requested end and end after the
\* requested start, in input order; isAvailable is true exactly when there
\* are none; a booking that only touches the requested slot is no conflict.
C23_ConflictsAreOverlaps ==
    availability.called =>
        /\ availability.result.conflictingBookings
               = SelectSeq(availability.bookings, Overlaps)
        /\ availability.result.isAvailable
               <=> availability.result.conflictingBookings = <<>>
        /\ \A i \in 1..Len(availability.bookings) :
              Touches(availability.bookings[i]) =>
                  \A k \in 1..Len(availability.result.conflictingBookings) :
                      availability.result.conflictingBookings[k].id # i

\* Of three bookings the first and the last overlap the slot, the one in
\* between ends when the slot starts.
C23_Witness ==
    /\ availability.called
    /\ Len(availability.bookings) = 3
    /\ Touches(availability.bookings[2])
    /\ ~availability.result.isAvailable
    /\ Len(availability.result.conflictingBookings) = 2
    /\ availability.result.conflictingBookings[1].id = 1
    /\ availability.result.conflictingBookings[2].id = 3


----------------------------------------------------------------------------
\* The matches of a ladder

\* The bookings of the list that are of the ladder asked for (all of them
\* when none is asked for).
OfLadderAskedFor ==
    {i \in 1..Len(ladderMatches.bookings.list) :
        ladderMatches.ladderId # undefined =>
            ladderMatches.bookings.list[i].ladderId = ladderMatches.ladderId}

\* The time a match is ordered by.
OrderedBy(m) ==
    IF m.bookingStart.kind = "iso" THEN m.bookingStart.hour ELSE 0

\* The result has one match for each booking of `expected`, no other entry,
\* and is ordered by start descending.
MatchesExactly(expected) ==
    LET result == ladderMatches.result
    IN /\ Len(result) = Cardinality(expected)
       /\ {result[k].id : k \in 1..Len(result)} = expected
       /\ \A k \in 1..Len(result) :
             /\ ~result[k].isNull
             /\ result[k] = bookingToLadderMatch(
                                ladderMatches.bookings.list[result[k].id])
       /\ \A j, k \in 1..Len(result) :
             j < k => OrderedBy(result[j]) >= OrderedBy(result[k])

\* C25 as stated: one match for each booking that has both player id
\* fields.
C25_OneMatchPerBookingWithBothFields ==
    ladderMatches.called =>
        MatchesExactly(
            {i \in OfLadderAskedFor :
                /\ ~Absent(ladderMatches.bookings.list[i].playerAId)
                /\ ~Absent(ladderMatches.bookings.list[i].playerBId)})

\* C25: buildLadderMatches returns exactly one match for each booking whose
\* playerAId and playerBId are both non-empty and, when a ladderId is given,
\* whose ladderId equals it, and no other entries; the matches are ordered
\* by bookingStart descending, a match without a start time counting as
\* time 0.
C25_OneMatchPerLadderBooking ==
    ladderMatches.called =>
        MatchesExactly(
            {i \in OfLadderAskedFor :
                /\ NamesPlayer(ladderMatches.bookings.list[i].playerAId)
                /\ NamesPlayer(ladderMatches.bookings.list[i].playerBId)})

\* Of three bookings of the ladder asked for, the one with an empty playerAId
\* is left out; the other two come out in the reverse of their input order,
\* the one without a start last.
C25_Witness ==
    /\ ladderMatches.called
    /\ ladderMatches.ladderId = "ladder-1"
    /\ Len(ladderMatches.bookings.list) = 3
    /\ OfLadderAskedFor = {1, 2, 3}
    /\ ladderMatches.bookings.list[1].startDate = EmptyDateString
    /\ ladderMatches.bookings.list[2].playerAId = EmptyId
    /\ Len(ladderMatches.result) = 2
    /\ ladderMatches.result[1].id = 3
    /\ ladderMatches.result[2].id = 1


----------------------------------------------------------------------------
\* Optimistic updates of the cached bookings

\* C24: when the API call of useCreateBookingMutation or
\* useDeleteBookingMutation fails, after onError the cached bookings equal
\* what was cached immediately before onMutate made the optimistic change,
\* for a populated list, an empty list and nothing cached.
C24_RollbackRestoresCache ==
    cache.phase = "failed" => cache.data = cache.before


----------------------------------------------------------------------------
\* The ladder page: challenges

\* The session user may challenge this player: signed in, in the active
\* ladder's participants, and eligible on the ladder the page shows.
MayChallenge(p, player) ==
    /\ ~p.user.isNull
    /\ p.activeLadder.defined
    /\ p.user.uid \in p.activeLadder.ids
    /\ getChallengeStatus(LadderShown(p), p.user.uid, player.id).eligible

Rows(p) == {LadderShown(p)[row] : row \in 1..Len(LadderShown(p))}

\* C22: handleSelectOpponent sets selectedOpponent to a player only when a
\* user is signed in, that user is in the active ladder's participants and
\* getChallengeStatus(ladder, user, opponent) is eligible, and then clears
\* the message; after any other click selectedOpponent is null and a message
\* is shown.
C22_OnlyParticipantsChallenge ==
    (page.mounted /\ page.handler = "handleSelectOpponent") =>
        IF ~page.selectedOpponent.isNull
        THEN /\ page.selectedOpponent.value \in Rows(page)
             /\ MayChallenge(page, page.selectedOpponent.value)
             /\ page.challengeMessage = noMessage
        ELSE /\ page.challengeMessage # noMessage
             /\ \E player \in Rows(page) : ~MayChallenge(page, player)

\* A participant has selected an opponent on a ladder that a reported result
\* has reordered.
C22_Witness ==
    /\ page.mounted
    /\ page.handler = "handleSelectOpponent"
    /\ ~page.selectedOpponent.isNull
    /\ ~page.ladderOverride.isNull
    /\ page.ladderOverride.value # page.basePlayers

----------------------------------------------------------------------------
\* The ladder page: reported results

\* The stats of these players in a ladder, for the known users among them.
StatsOf(l, ids, known) ==
    LET due(id) == id \in known /\ id \in IdsOf(l)
        sent == SelectSeq(ids, due)
    IN [k \in 1..Len(sent) |->
           [uid |-> sent[k], ladderWins |-> PlayerOf(l, sent[k]).wins,
            ladderLosses |-> PlayerOf(l, sent[k]).losses]]

Succeeds(m) ==
    /\ page.reports[m].state = "pending"
    /\ page'.reports[m].state = "succeeded"

C27_BothResultsCounted ==
    (/\ page.mounted
     /\ \A m \in 1..Len(page.reports) :
            /\ page.reports[m].state = "succeeded"
            /\ {page.ladderMatches[m].playerAId,
                page.ladderMatches[m].playerBId}
                   \subseteq IdsOf(page.basePlayers)) =>
        /\ ~page.ladderOverride.isNull
        /\ SumOfWins(page.ladderOverride.value) =
               SumOfWins(page.basePlayers) + 2
        /\ SumOfLosses(page.ladderOverride.value) =
               SumOfLosses(page.basePlayers) + 2

====
